---------------------------- MODULE Spec2Model ----------------------------
(***************************************************************************)
(* A model of aretext's text storage: text.Tree (internal/pkg/text/tree.go),*)
(* its bulk loader, its deletion and its cursors; and of its segmentation   *)
(* (text/segment/line.go): the line breaker and the wrapped-line iterator;  *)
(* and of the word motions and word objects of package locate and the      *)
(* searching cursor actions of package input.                               *)
(*                                                                          *)
(* Indices are the Go ones (0-based); a Go array a is a TLA+ sequence and   *)
(* a[i] is written a[i + 1].  Bytes are the integers 0..255.                *)
(***************************************************************************)
EXTENDS Integers, Sequences, FiniteSets, TLC

(***************************************************************************)
(* Capacities.  The source sets maxKeysPerNode = maxNodesPerGroup = 64,     *)
(* maxBytesPerLeaf = 63 and reads through a 1024-byte buffer.  Every        *)
(* definition below is written over these names, and the model runs them    *)
(* scaled down so that several leaves, several leaf groups and a second     *)
(* layer of inner node groups occur within documents of a few characters.   *)
(* maxBytesPerLeaf must stay above 4, the widest UTF-8 character, and       *)
(* maxNodesPerGroup above 1, as in the source.                              *)
(***************************************************************************)
maxNodesPerGroup == 2

maxKeysPerNode == maxNodesPerGroup

maxBytesPerLeaf == 5

bufLen == 3

\* Documents: every sequence of at most MaxShort characters over Chars, and
\* every sequence of at most MaxChars characters over DeepChars.
MaxShort == 2

MaxChars == 5

\* The longest buffer handed to Cursor.Read.
MaxBuf == 3

\* uint64 arithmetic (charPos, lineNum, keys, indices) wraps around modulo
\* 2^64 in the source.  The model checker's integers are 32 bits wide, so the
\* model wraps modulo U64 below, far above every count a bounded document
\* reaches: a wrap-around shows as a huge value, as it does in the source.
U64 == 2^30

MaxUint64 == U64 - 1

Sub64(a, b) == (a - b + U64) % U64

\* byte arithmetic (leafNode.numBytes, utf8CharWidth).
AddByte(a, b) == (a + b) % 256

SubByte(a, b) == (a - b + 256) % 256

--------------------------------------------------------------------------
(* Sequences *)

RECURSIVE Flatten(_)
Flatten(ss) == IF ss = <<>> THEN <<>> ELSE Head(ss) \o Flatten(Tail(ss))

RemoveAt(s, i) == SubSeq(s, 1, i - 1) \o SubSeq(s, i + 1, Len(s))

SeqsUpTo(S, n) == UNION {[1..k -> S] : k \in 0..n}

Min(a, b) == IF a < b THEN a ELSE b

Zeros(n) == [i \in 1..n |-> 0]

--------------------------------------------------------------------------
(* UTF-8 lookup tables *)

\* Byte count of the character for start bytes, zero otherwise.
utf8CharWidth(b) ==
    IF b \div 128 = 0 THEN 1
    ELSE IF b \div 32 = 6 THEN 2
    ELSE IF b \div 16 = 14 THEN 3
    ELSE IF b \div 8 = 30 THEN 4
    ELSE 0

\* 1 for start bytes, zero otherwise.
utf8StartByteIndicator(b) ==
    IF \/ b \div 128 = 0
       \/ b \div 32 = 6
       \/ b \div 16 = 14
       \/ b \div 8 = 30
    THEN 1 ELSE 0

NL == 10

\* "\n", "a", U+00E9, U+20AC, U+1F600
Chars == { <<NL>>, <<97>>, <<195, 169>>, <<226, 130, 172>>, <<240, 159, 152, 128>> }

DeepChars == { <<NL>>, <<240, 159, 152, 128>> }

Docs == SeqsUpTo(Chars, MaxShort) \cup SeqsUpTo(DeepChars, MaxChars)

ShortDocs == SeqsUpTo(Chars, MaxShort)

--------------------------------------------------------------------------
(* leafNode *)

ZeroLeaf == [numBytes |-> 0, textBytes |-> Zeros(maxBytesPerLeaf)]

\* l.textBytes[:l.numBytes]
LeafText(l) == SubSeq(l.textBytes, 1, l.numBytes)

ZeroKey == [numChars |-> 0, numNewlines |-> 0]

RECURSIVE CountStart(_)
CountStart(bs) ==
    IF bs = <<>> THEN 0 ELSE utf8StartByteIndicator(Head(bs)) + CountStart(Tail(bs))

RECURSIVE CountNL(_)
CountNL(bs) ==
    IF bs = <<>> THEN 0 ELSE (IF Head(bs) = NL THEN 1 ELSE 0) + CountNL(Tail(bs))

leafKey(l) ==
    [numChars |-> CountStart(LeafText(l)), numNewlines |-> CountNL(LeafText(l))]

\* The loop of byteOffsetForPosition from index i with n characters counted.
RECURSIVE byteOffsetFrom(_, _, _, _)
byteOffsetFrom(l, charPos, i, n) ==
    IF i >= l.numBytes THEN l.numBytes
    ELSE LET c == utf8StartByteIndicator(l.textBytes[i + 1])
         IN  IF c > 0 /\ n = charPos THEN i
             ELSE byteOffsetFrom(l, charPos, i + 1, n + c)

\* Mutant: the character position is taken for the byte offset, with no
\* clamp to the end of the leaf.
byteOffsetForPosition_CharsAsBytes(l, charPos) == charPos

byteOffsetForPosition(l, charPos) == byteOffsetFrom(l, charPos, 0, 0)

RECURSIVE afterNewlineFrom(_, _, _, _)
afterNewlineFrom(l, newlinePos, i, n) ==
    IF i >= l.numBytes THEN l.numBytes
    ELSE IF l.textBytes[i + 1] = NL
         THEN IF n = newlinePos THEN i + 1
              ELSE afterNewlineFrom(l, newlinePos, i + 1, n + 1)
         ELSE afterNewlineFrom(l, newlinePos, i + 1, n)

\* Mutant: a newline that is not found gives offset 0, not numBytes.
byteOffsetAfterNewline_ZeroWhenMissing(l, newlinePos) ==
    IF newlinePos >= CountNL(LeafText(l)) THEN 0
    ELSE afterNewlineFrom(l, newlinePos, 0, 0)

byteOffsetAfterNewline(l, newlinePos) == afterNewlineFrom(l, newlinePos, 0, 0)

\* Mutant: the shift loop moves every byte by one place, whatever the width
\* of the character.
ShiftLeft_ByOne(tb, offset, w, numBytes) ==
    [k \in 1..Len(tb) |->
        IF k - 1 >= offset /\ k - 1 < SubByte(numBytes, w) /\ k + 1 <= Len(tb)
        THEN tb[k + 1] ELSE tb[k]]

\* The shift loop of leafNode.deleteAtPosition: textBytes[i] = textBytes[i+w]
\* for offset <= i < numBytes - w, in increasing i.  The bytes from
\* numBytes - w on keep their old values.
ShiftLeft(tb, offset, w, numBytes) ==
    [k \in 1..Len(tb) |->
        IF k - 1 >= offset /\ k - 1 < SubByte(numBytes, w) /\ k + w <= Len(tb)
        THEN tb[k + w] ELSE tb[k]]

\* panic: the shift loop would index textBytes past its end (numBytes -
\* charWidth wraps around as a byte when the leaf holds less than a whole
\* character).
leafDeleteAtPosition(l, charPos) ==
    LET offset == byteOffsetForPosition(l, charPos)
    IN  IF offset < l.numBytes
        THEN LET startByte == l.textBytes[offset + 1]
                 charWidth == utf8CharWidth(startByte)
             IN  [leaf       |-> [numBytes  |-> SubByte(l.numBytes, charWidth),
                                  textBytes |-> ShiftLeft(l.textBytes, offset,
                                                          charWidth, l.numBytes)],
                  didDelete  |-> TRUE,
                  wasNewline |-> startByte = NL,
                  panic      |-> /\ offset < SubByte(l.numBytes, charWidth)
                                 /\ SubByte(l.numBytes, charWidth) + charWidth
                                        > maxBytesPerLeaf]
        ELSE [leaf |-> l, didDelete |-> FALSE, wasNewline |-> FALSE, panic |-> FALSE]

--------------------------------------------------------------------------
(* Node groups and inner nodes.                                            *)
(*                                                                         *)
(* Leaf node groups live in an arena, a sequence indexed from 1; a         *)
(* *leafNodeGroup is an index into it and 0 is the nil pointer.  An inner  *)
(* node group is owned by the one inner node that points to it and is kept *)
(* inline in that node's child field.                                      *)

NilGroup == [kind |-> "nil"]

LeafRef(g) == [kind |-> "leaf", g |-> g]

ZeroInner ==
    [child |-> NilGroup, numKeys |-> 0, keys |-> [i \in 1..maxKeysPerNode |-> ZeroKey]]

InnerGroup(n, nodes) == [kind |-> "inner", numNodes |-> n, nodes |-> nodes]

ZeroInnerGroup == InnerGroup(0, [i \in 1..maxNodesPerGroup |-> ZeroInner])

LeafGroup(n) ==
    [prev |-> 0, next |-> 0, numNodes |-> n,
     nodes |-> [i \in 1..maxNodesPerGroup |-> ZeroLeaf]]

RECURSIVE SumKeys(_, _)
SumKeys(keys, n) ==
    IF n = 0 THEN ZeroKey
    ELSE LET r == SumKeys(keys, n - 1)
         IN  [numChars    |-> (r.numChars + keys[n].numChars) % U64,
              numNewlines |-> (r.numNewlines + keys[n].numNewlines) % U64]

innerKey(n) == SumKeys(n.keys, n.numKeys)

\* nodeGroup.keys() of a leaf node group or an inner node group.
groupKeys(child, groups) ==
    IF child.kind = "leaf"
    THEN [i \in 1..groups[child.g].numNodes |-> leafKey(groups[child.g].nodes[i])]
    ELSE [i \in 1..child.numNodes |-> innerKey(child.nodes[i])]

\* Mutant: the keys are copied and numKeys is left as it was.
recalculateChildKeys_KeepsNumKeys(n, groups) ==
    LET childKeys == groupKeys(n.child, groups)
    IN  [n EXCEPT !.keys = [i \in 1..maxKeysPerNode |->
                               IF i <= Len(childKeys) THEN childKeys[i] ELSE @[i]]]

recalculateChildKeys(n, groups) ==
    LET childKeys == groupKeys(n.child, groups)
    IN  [n EXCEPT !.keys = [i \in 1..maxKeysPerNode |->
                               IF i <= Len(childKeys) THEN childKeys[i] ELSE @[i]],
                  !.numKeys = Len(childKeys)]

RECURSIVE locateFrom(_, _, _, _)
locateFrom(n, charPos, i, c) ==
    IF i >= n.numKeys THEN [nodeIdx |-> Sub64(n.numKeys, 1), adjusted |-> c]
    ELSE LET nc == n.keys[i + 1].numChars
         IN  IF charPos < (c + nc) % U64
             THEN [nodeIdx |-> i, adjusted |-> Sub64(charPos, c)]
             ELSE locateFrom(n, charPos, i + 1, (c + nc) % U64)

\* Mutant: the position is handed down without subtracting the characters
\* of the children before.
locatePosition_NoAdjust(n, charPos) ==
    [locateFrom(n, charPos, 0, 0) EXCEPT !.adjusted = charPos]

\* Mutant: a position past the end is clamped to the first character of the
\* last child.
locatePosition_ClampToChar(n, charPos) ==
    IF charPos >= SumKeys(n.keys, n.numKeys).numChars
    THEN [nodeIdx |-> Sub64(n.numKeys, 1), adjusted |-> 0]
    ELSE locateFrom(n, charPos, 0, 0)

locatePosition(n, charPos) == locateFrom(n, charPos, 0, 0)

\* Mutant: the newline count is never decremented.
UpdateKey_KeepsNewlines(k, didDelete, wasNewline) ==
    IF didDelete
    THEN [numChars |-> Sub64(k.numChars, 1), numNewlines |-> k.numNewlines]
    ELSE k

\* Lines 277-282: the key of the child the deletion went into.
UpdateKey(k, didDelete, wasNewline) ==
    IF didDelete
    THEN [numChars    |-> Sub64(k.numChars, 1),
          numNewlines |-> IF wasNewline THEN Sub64(k.numNewlines, 1)
                          ELSE k.numNewlines]
    ELSE k

RECURSIVE innerDeleteAtPosition(_, _, _)
RECURSIVE groupDeleteAtPosition(_, _, _, _)
\* Mutant: a leaf node group gives up its last leaf when the deletion has
\* emptied it.
groupDeleteAtPosition_DropsEmptyLeaf(child, groups, nodeIdx, charPos) ==
    IF child.kind = "leaf"
    THEN LET r == leafDeleteAtPosition(groups[child.g].nodes[nodeIdx + 1], charPos)
             drop == /\ r.leaf.numBytes = 0
                     /\ nodeIdx + 1 = groups[child.g].numNodes
                     /\ nodeIdx > 0
         IN  [child      |-> child,
              groups     |-> [groups EXCEPT ![child.g].nodes[nodeIdx + 1] = r.leaf,
                                            ![child.g].numNodes =
                                                IF drop THEN @ - 1 ELSE @],
              didDelete  |-> r.didDelete,
              wasNewline |-> r.wasNewline,
              panic      |-> r.panic]
    ELSE LET r == innerDeleteAtPosition(child.nodes[nodeIdx + 1], groups, charPos)
         IN  [child      |-> [child EXCEPT !.nodes[nodeIdx + 1] = r.node],
              groups     |-> r.groups,
              didDelete  |-> r.didDelete,
              wasNewline |-> r.wasNewline,
              panic      |-> r.panic]

\* nodeGroup.deleteAtPosition of a leaf node group (no rebalancing) or of
\* an inner node group.
groupDeleteAtPosition(child, groups, nodeIdx, charPos) ==
    IF child.kind = "leaf"
    THEN LET r == leafDeleteAtPosition(groups[child.g].nodes[nodeIdx + 1], charPos)
         IN  [child      |-> child,
              groups     |-> [groups EXCEPT ![child.g].nodes[nodeIdx + 1] = r.leaf],
              didDelete  |-> r.didDelete,
              wasNewline |-> r.wasNewline,
              panic      |-> r.panic]
    ELSE LET r == innerDeleteAtPosition(child.nodes[nodeIdx + 1], groups, charPos)
         IN  [child      |-> [child EXCEPT !.nodes[nodeIdx + 1] = r.node],
              groups     |-> r.groups,
              didDelete  |-> r.didDelete,
              wasNewline |-> r.wasNewline,
              panic      |-> r.panic]

innerDeleteAtPosition(n, groups, charPos) ==
    LET loc == locatePosition(n, charPos)
        r   == groupDeleteAtPosition(n.child, groups, loc.nodeIdx, loc.adjusted)
    IN  [node       |-> [n EXCEPT
                           !.child = r.child,
                           !.keys[loc.nodeIdx + 1] =
                               UpdateKey(@, r.didDelete, r.wasNewline)],
         groups     |-> r.groups,
         didDelete  |-> r.didDelete,
         wasNewline |-> r.wasNewline,
         panic      |-> r.panic]

--------------------------------------------------------------------------
(* Cursors *)

NewCursor(g, nodeIdx, off) == [group |-> g, nodeIdx |-> nodeIdx, textByteOffset |-> off]

RECURSIVE innerCursorAtPosition(_, _, _)
innerCursorAtPosition(n, groups, charPos) ==
    LET loc == locatePosition(n, charPos)
    IN  IF n.child.kind = "leaf"
        THEN NewCursor(n.child.g, loc.nodeIdx,
                       byteOffsetForPosition(groups[n.child.g].nodes[loc.nodeIdx + 1],
                                             loc.adjusted))
        ELSE innerCursorAtPosition(n.child.nodes[loc.nodeIdx + 1], groups, loc.adjusted)

\* The child and the adjusted newline position innerNode.cursorAfterNewline
\* descends into: the loop runs over all keys but the last.
RECURSIVE locateNewlineFrom(_, _, _, _)
locateNewlineFrom(n, newlinePos, i, c) ==
    IF i >= Sub64(n.numKeys, 1)
    THEN [nodeIdx |-> Sub64(n.numKeys, 1), adjusted |-> Sub64(newlinePos, c)]
    ELSE LET nc == n.keys[i + 1].numNewlines
         IN  IF newlinePos < (c + nc) % U64
             THEN [nodeIdx |-> i, adjusted |-> Sub64(newlinePos, c)]
             ELSE locateNewlineFrom(n, newlinePos, i + 1, (c + nc) % U64)

RECURSIVE innerCursorAfterNewline(_, _, _)
innerCursorAfterNewline(n, groups, newlinePos) ==
    LET loc == locateNewlineFrom(n, newlinePos, 0, 0)
    IN  IF n.child.kind = "leaf"
        THEN NewCursor(n.child.g, loc.nodeIdx,
                       byteOffsetAfterNewline(groups[n.child.g].nodes[loc.nodeIdx + 1],
                                              loc.adjusted))
        ELSE innerCursorAfterNewline(n.child.nodes[loc.nodeIdx + 1], groups, loc.adjusted)

CursorAtPosition(root, groups, charPos) == innerCursorAtPosition(root, groups, charPos)

\* Mutant: the line number is used as the newline's index (off by one).
CursorAtLine_OffByOne(root, groups, lineNum) ==
    IF lineNum = 0
    THEN innerCursorAtPosition(root, groups, 0)
    ELSE innerCursorAfterNewline(root, groups, lineNum)

CursorAtLine(root, groups, lineNum) ==
    IF lineNum = 0
    THEN innerCursorAtPosition(root, groups, 0)
    ELSE innerCursorAfterNewline(root, groups, lineNum - 1)

\* One pass of the loop of Cursor.Read (lines 173-187) with room bytes left
\* in the buffer: the bytes copied and the cursor afterwards.  panic is the
\* slice textBytes[textByteOffset:numBytes] with textByteOffset > numBytes.
ReadStep(c, groups, room) ==
    LET node == groups[c.group].nodes[c.nodeIdx + 1]
        bytesWritten == Min(room, node.numBytes - c.textByteOffset)
        off1 == c.textByteOffset + bytesWritten
        c1 == IF off1 = node.numBytes
              THEN NewCursor(c.group, c.nodeIdx + 1, 0)
              ELSE NewCursor(c.group, c.nodeIdx, off1)
        c2 == IF c1.nodeIdx = groups[c.group].numNodes
              THEN NewCursor(groups[c.group].next, 0, 0)
              ELSE c1
    IN  IF c.textByteOffset > node.numBytes
        THEN [cursor |-> c, bytes |-> <<>>, panic |-> TRUE]
        ELSE [cursor |-> c2,
              bytes  |-> SubSeq(node.textBytes, c.textByteOffset + 1, off1),
              panic  |-> FALSE]

\* Cursor.Read into a buffer of n bytes, acc of them written.  err is "nil"
\* or "EOF".
RECURSIVE ReadLoop(_, _, _, _)
ReadLoop(c, groups, n, acc) ==
    IF Len(acc) = n THEN [cursor |-> c, bytes |-> acc, err |-> "nil", panic |-> FALSE]
    ELSE IF c.group = 0
    THEN [cursor |-> c, bytes |-> acc, err |-> "EOF", panic |-> FALSE]
    ELSE LET st == ReadStep(c, groups, n - Len(acc))
         IN  IF st.panic
             THEN [cursor |-> c, bytes |-> acc, err |-> "nil", panic |-> TRUE]
             ELSE ReadLoop(st.cursor, groups, n, acc \o st.bytes)

CursorRead(c, groups, n) == ReadLoop(c, groups, n, <<>>)

--------------------------------------------------------------------------
(* The UTF-8 validator (NewValidator, ValidateBytes, ValidateEnd).  Its     *)
(* state is the number of continuation bytes the current character still    *)
(* needs; Rejected is absorbing.                                            *)

Rejected == -1

NewValidator == 0

ValidateByte(v, b) ==
    IF v = Rejected THEN Rejected
    ELSE IF v > 0 THEN (IF b \div 64 = 2 THEN v - 1 ELSE Rejected)
    ELSE IF b \div 64 = 2 \/ b \div 8 = 31 THEN Rejected
    ELSE IF b \div 128 = 0 THEN 0
    ELSE IF b \div 32 = 6 THEN 1
    ELSE IF b \div 16 = 14 THEN 2
    ELSE 3

\* The validator's state after a chunk; ValidateBytes returns false exactly
\* when it is Rejected.
RECURSIVE ValidateBytes(_, _)
ValidateBytes(v, bs) ==
    IF bs = <<>> THEN v ELSE ValidateBytes(ValidateByte(v, Head(bs)), Tail(bs))

ValidateEnd(v) == v = 0

--------------------------------------------------------------------------
(* Readers (io.Reader).  A reader holds the bytes it has still to deliver   *)
(* and hands out at most chunk of them per Read.                            *)
(*   plain    like strings.Reader: data with a nil error, then (0, io.EOF)  *)
(*   eof      the last bytes come together with io.EOF                      *)
(*   zero     the second Read returns (0, nil)                              *)
(*   fail     the second Read returns (0, error)                            *)
(*   failData the second Read returns its bytes together with an error      *)

ReaderModes == {"plain", "eof", "zero", "fail", "failData"}

ErrRead == "read error"

ErrInvalid == "invalid UTF-8"

NewReader(data, chunk, mode) ==
    [data |-> data, chunk |-> chunk, mode |-> mode, calls |-> 0]

ReaderRead(r) ==
    LET n    == Min(r.chunk, Len(r.data))
        take == SubSeq(r.data, 1, n)
        rest == SubSeq(r.data, n + 1, Len(r.data))
        second == r.calls = 1
    IN  IF second /\ r.mode = "zero"
        THEN [bytes |-> <<>>, err |-> "nil", next |-> [r EXCEPT !.calls = @ + 1]]
        ELSE IF second /\ r.mode = "fail"
        THEN [bytes |-> <<>>, err |-> ErrRead, next |-> [r EXCEPT !.calls = @ + 1]]
        ELSE [bytes |-> take,
              err   |-> IF second /\ r.mode = "failData" THEN ErrRead
                        ELSE IF n = 0 THEN "EOF"
                        ELSE IF r.mode = "eof" /\ rest = <<>> THEN "EOF"
                        ELSE "nil",
              next  |-> [r EXCEPT !.data = rest, !.calls = @ + 1]]

--------------------------------------------------------------------------
(* Bulk loading *)

\* The loader's position: the arena of leaf groups, the current group (an
\* index of the arena), the current node (an index of the group's nodes).
\* panic: a byte was written at an index outside textBytes.
NewLoad ==
    [groups |-> <<LeafGroup(1)>>, cg |-> 1, cn |-> 0, panic |-> FALSE]

\* Mutant: every byte counts for one, a continuation byte too.
StartsNewLeaf_CountsBytes(numBytes, charWidth) == AddByte(numBytes, 1) >= maxBytesPerLeaf

\* Lines 71-83: whether the byte starts a new leaf.
StartsNewLeaf(numBytes, charWidth) == AddByte(numBytes, charWidth) >= maxBytesPerLeaf

\* Mutant: a new group is not linked from the group before it (line 79).
StoreByte_NoNextLink(L, b) ==
    LET charWidth == utf8CharWidth(b)
        full == StartsNewLeaf(L.groups[L.cg].nodes[L.cn + 1].numBytes, charWidth)
        L1 == IF ~full THEN L
              ELSE IF L.groups[L.cg].numNodes < maxNodesPerGroup
              THEN [L EXCEPT !.cn = L.groups[L.cg].numNodes,
                             !.groups[L.cg].numNodes = @ + 1]
              ELSE [L EXCEPT !.groups =
                                 Append(L.groups, [LeafGroup(1) EXCEPT !.prev = L.cg]),
                             !.cg = Len(L.groups) + 1,
                             !.cn = 0]
        node == L1.groups[L1.cg].nodes[L1.cn + 1]
    IN  IF node.numBytes >= maxBytesPerLeaf
        THEN [L1 EXCEPT !.panic = TRUE]
        ELSE [L1 EXCEPT !.groups[L1.cg].nodes[L1.cn + 1] =
                            [numBytes  |-> AddByte(node.numBytes, 1),
                             textBytes |-> [node.textBytes EXCEPT ![node.numBytes + 1] = b]]]

\* One pass of the loop over buf[:n] (lines 69-87).
StoreByte(L, b) ==
    LET charWidth == utf8CharWidth(b)
        full == StartsNewLeaf(L.groups[L.cg].nodes[L.cn + 1].numBytes, charWidth)
        L1 == IF ~full THEN L
              ELSE IF L.groups[L.cg].numNodes < maxNodesPerGroup
              THEN [L EXCEPT !.cn = L.groups[L.cg].numNodes,
                             !.groups[L.cg].numNodes = @ + 1]
              ELSE [L EXCEPT !.groups =
                                 Append([L.groups EXCEPT ![L.cg].next = Len(L.groups) + 1],
                                        [LeafGroup(1) EXCEPT !.prev = L.cg]),
                             !.cg = Len(L.groups) + 1,
                             !.cn = 0]
        node == L1.groups[L1.cg].nodes[L1.cn + 1]
    IN  IF node.numBytes >= maxBytesPerLeaf
        THEN [L1 EXCEPT !.panic = TRUE]
        ELSE [L1 EXCEPT !.groups[L1.cg].nodes[L1.cn + 1] =
                            [numBytes  |-> AddByte(node.numBytes, 1),
                             textBytes |-> [node.textBytes EXCEPT ![node.numBytes + 1] = b]]]

RECURSIVE StoreBytes(_, _)
StoreBytes(L, bs) ==
    IF bs = <<>> \/ L.panic THEN L ELSE StoreBytes(StoreByte(L, Head(bs)), Tail(bs))

\* What the loop (lines 55-88) does with the result of one Read.
\*   "error"  return nil, err          "break"  leave the loop
\*   "store"  store the bytes and read again
AfterRead(rd, v) ==
    IF rd.err # "nil" /\ rd.err # "EOF" THEN [do |-> "error", err |-> rd.err]
    ELSE IF Len(rd.bytes) = 0 THEN [do |-> "break", err |-> "nil"]
    ELSE IF ValidateBytes(v, rd.bytes) = Rejected THEN [do |-> "error", err |-> ErrInvalid]
    ELSE [do |-> "store", err |-> "nil"]

\* Mutant: the end of the stream is not validated.
AfterLoop_NoValidateEnd(L, v) ==
    [groups |-> L.groups, err |-> "nil", panic |-> L.panic]

\* Lines 90-94.
AfterLoop(L, v) ==
    IF ~ValidateEnd(v)
    THEN [groups |-> <<>>, err |-> ErrInvalid, panic |-> L.panic]
    ELSE [groups |-> L.groups, err |-> "nil", panic |-> L.panic]

RECURSIVE LoadLoop(_, _, _)
LoadLoop(r, v, L) ==
    LET rd == ReaderRead(r)
        a  == AfterRead(rd, v)
    IN  IF L.panic THEN [groups |-> <<>>, err |-> "nil", panic |-> TRUE]
        ELSE IF a.do = "error" THEN [groups |-> <<>>, err |-> a.err, panic |-> FALSE]
        ELSE IF a.do = "break" THEN AfterLoop(L, v)
        ELSE LoadLoop(rd.next, ValidateBytes(v, rd.bytes), StoreBytes(L, rd.bytes))

\* groups is the slice of leaf groups, empty when err is not "nil".
bulkLoadIntoLeaves(r) == LoadLoop(r, NewValidator, NewLoad)

\* One pass of the loop over childGroups (lines 105-116).
RECURSIVE BuildLayer(_, _, _)
BuildLayer(childGroups, parentGroups, groups) ==
    IF childGroups = <<>> THEN parentGroups
    ELSE LET ps  == IF parentGroups[Len(parentGroups)].numNodes = maxNodesPerGroup
                    THEN Append(parentGroups, ZeroInnerGroup)
                    ELSE parentGroups
             cur == ps[Len(ps)]
             node == recalculateChildKeys(
                         [cur.nodes[cur.numNodes + 1] EXCEPT !.child = Head(childGroups)],
                         groups)
         IN  BuildLayer(Tail(childGroups),
                        [ps EXCEPT ![Len(ps)] =
                            [cur EXCEPT !.nodes[cur.numNodes + 1] = node,
                                        !.numNodes = @ + 1]],
                        groups)

RECURSIVE BuildLayers(_, _)
BuildLayers(childGroups, groups) ==
    LET parentGroups == BuildLayer(childGroups, <<ZeroInnerGroup>>, groups)
    IN  IF Len(parentGroups) = 1
        THEN recalculateChildKeys([ZeroInner EXCEPT !.child = parentGroups[1]], groups)
        ELSE BuildLayers(parentGroups, groups)

\* The root of the tree over the leaf groups of the arena.
buildTreeFromLeaves(groups) ==
    BuildLayers([g \in 1..Len(groups) |-> LeafRef(g)], groups)

--------------------------------------------------------------------------
(* What a tree holds *)

NilTree == [isNil |-> TRUE]

Tree(root) == [isNil |-> FALSE, root |-> root]

\* The leaves under an inner node, left to right, down the child pointers.
RECURSIVE LeavesUnder(_, _)
RECURSIVE LeavesOfGroup(_, _, _)
LeavesOfGroup(child, groups, i) ==
    IF child.kind = "leaf"
    THEN [k \in 1..groups[child.g].numNodes |-> groups[child.g].nodes[k]]
    ELSE IF i > child.numNodes THEN <<>>
    ELSE LeavesUnder(child.nodes[i], groups) \o LeavesOfGroup(child, groups, i + 1)

LeavesUnder(n, groups) == LeavesOfGroup(n.child, groups, 1)

\* The bytes of the document, leaf after leaf.
TreeText(root, groups) ==
    Flatten([k \in 1..Len(LeavesUnder(root, groups)) |->
                LeafText(LeavesUnder(root, groups)[k])])

\* A byte string cut into its characters at the start bytes.
RECURSIVE SplitChars(_)
SplitChars(bs) ==
    IF bs = <<>> THEN <<>>
    ELSE LET w0 == utf8CharWidth(Head(bs))
             w  == Min(IF w0 = 0 THEN 1 ELSE w0, Len(bs))
         IN  <<SubSeq(bs, 1, w)>> \o SplitChars(SubSeq(bs, w + 1, Len(bs)))

--------------------------------------------------------------------------
(* Line breaking: segment.LineBreaker (text/segment/line.go)               *)

\* LineBreakDecision, lines 15-22.
NoLineBreak == "NoLineBreak"

AllowLineBreakBefore == "AllowLineBreakBefore"

RequireLineBreakBefore == "RequireLineBreakBefore"

RequireLineBreakAfter == "RequireLineBreakAfter"

\* The zero lbProp: the class of a code point LineBreak.txt does not list,
\* and the lastProp of a breaker that has processed nothing.
lbPropNone == "None"

\* A rune, with the entries the generated tables and package unicode hold
\* for it: its code point, its line-break class (LineBreak.txt), its
\* general category and its East Asian width (EastAsianWidth.txt).
Rune(cp, lbp, gc, ea) == [cp |-> cp, lb |-> lbp, gc |-> gc, ea |-> ea]

lbPropForRune(r) == r.lb

eaPropForRune(r) == r.ea

\* unicode.In(r, unicode.Mn, unicode.Mc), with the mutant that forgets Mc.
unicodeInMnMc_OnlyMn(r) == r.gc = "Mn"

unicodeInMnMc(r) == r.gc \in {"Mn", "Mc"}

\* LB1, lines 40-57: the class the rules below work with.
LB1_KeepsSG(r) ==
    LET p0 == lbPropForRune(r)
        p1 == IF p0 = lbPropNone THEN "XX" ELSE p0
    IN  IF p1 \in {"AI", "XX"} THEN "AL"
        ELSE IF p1 = "SA" THEN (IF unicodeInMnMc(r) THEN "CM" ELSE "AL")
        ELSE IF p1 = "CJ" THEN "NS"
        ELSE p1

LB1(r) ==
    LET p0 == lbPropForRune(r)
        p1 == IF p0 = lbPropNone THEN "XX" ELSE p0
    IN  IF p1 \in {"AI", "SG", "XX"} THEN "AL"
        ELSE IF p1 = "SA" THEN (IF unicodeInMnMc(r) THEN "CM" ELSE "AL")
        ELSE IF p1 = "CJ" THEN "NS"
        ELSE p1

\* The LineBreaker struct, lines 27-36, as Go zeroes it.
LineBreaker ==
    [lastProp             |-> lbPropNone,
     lastLastProp         |-> lbPropNone,
     inZeroWidthSpaceSeq  |-> FALSE,
     inLeftBraceSpaceSeq  |-> FALSE,
     inQuotationSpaceSeq  |-> FALSE,
     inClosePunctSpaceSeq |-> FALSE,
     inDashSpaceSeq       |-> FALSE,
     lastPropsWereRIOdd   |-> FALSE]

\* LB4, line 64, with the mutant that drops the exception after CR.
LB4_AlsoAfterCR(last, prop) == prop = "BK"

LB4(last, prop) == prop = "BK" /\ last # "CR"

\* LB5, line 70: the LF of a CR LF; with the mutant that does not know the
\* pair, so that the LF is taken for a rune that follows a finished line.
LB5CRLF_TwoBreaks(last, prop) == FALSE

LB5CRLF(last, prop) == last = "CR" /\ prop = "LF"

\* LB7, line 87: no break before a space or a zero-width space; with the
\* mutant that leaves the zero-width space to the rules below.
LB7_OnlySpaces(prop) == prop = "SP"

LB7(prop) == prop \in {"SP", "ZW"}

\* LB8, line 92: a break before whatever follows a zero-width space and
\* spaces; with the mutant that lets LB13 speak first.
LB8_AfterLB13(inSeq, prop) ==
    inSeq /\ prop \notin {"SP", "CL", "CP", "EX", "IS", "SY"}

LB8(inSeq, prop) == inSeq /\ prop # "SP"

\* LB9, lines 103-110: a combining mark or ZWJ that has a base.
LB9(last, prop) ==
    /\ prop \in {"CM", "ZWJ"}
    /\ last \notin {"BK", "CR", "LF", "NL", "SP", "ZW", lbPropNone}

\* Lines 114-121: LB9 flips the parity flag for a mark on a regional
\* indicator, so that line 303 flips it back; with the mutant that lets the
\* mark count.
LB9RIOdd_MarkCounts(last, ri) == ri

LB9RIOdd(last, ri) == IF last = "RI" THEN ~ri ELSE ri

\* LB23-LB29, lines 207-265, on the pair (lastProp, prop).
LB23(last, prop) ==
    \/ last \in {"AL", "HL"} /\ prop = "NU"
    \/ last = "NU" /\ prop \in {"AL", "HL"}

LB23a(last, prop) ==
    \/ last = "PR" /\ prop \in {"ID", "EB", "EM"}
    \/ last \in {"ID", "EB", "EM"} /\ prop = "PO"

LB24(last, prop) ==
    \/ last \in {"PR", "PO"} /\ prop \in {"AL", "HL"}
    \/ last \in {"AL", "HL"} /\ prop \in {"PR", "PO"}

LB25(last, prop) ==
    <<last, prop>> \in
        {<<"CL", "PO">>, <<"CP", "PO">>, <<"CL", "PR">>, <<"CP", "PR">>,
         <<"NU", "PO">>, <<"NU", "PR">>, <<"PO", "OP">>, <<"PO", "NU">>,
         <<"PR", "OP">>, <<"PR", "NU">>, <<"HY", "NU">>, <<"IS", "NU">>,
         <<"NU", "NU">>, <<"SY", "NU">>}

LB26(last, prop) ==
    \/ last = "JL" /\ prop \in {"JL", "JV", "H2", "H3"}
    \/ last \in {"JV", "H2"} /\ prop \in {"JV", "JT"}
    \/ last \in {"JT", "H3"} /\ prop = "JT"

LB27(last, prop) ==
    \/ last \in {"JL", "JV", "JT", "H2", "H3"} /\ prop = "PO"
    \/ last = "PR" /\ prop \in {"JL", "JV", "JT", "H2", "H3"}

LB28(last, prop) == last \in {"AL", "HL"} /\ prop \in {"AL", "HL"}

LB29(last, prop) == last = "IS" /\ prop \in {"AL", "HL"}

\* LB30, lines 268-274: the pair, and the East Asian width of the rune.
LB30(last, prop, r) ==
    /\ \/ last \in {"AL", "HL", "NU"} /\ prop = "OP"
       \/ last = "CP" /\ prop \in {"AL", "HL", "NU"}
    /\ eaPropForRune(r) \notin {"F", "W", "H"}

\* Lines 63-288: the rules in their order, up to the label done.  The result
\* is the decision, prop as LB9 may have replaced it, and
\* lastPropsWereRIOdd as LB9 may have flipped it.
LBRules(lb, prop, r) ==
    LET last == lb.lastProp
        ri == lb.lastPropsWereRIOdd
        stop(d) == [decision |-> d, prop |-> prop, riOdd |-> ri]
    IN  IF LB4(last, prop) THEN stop(RequireLineBreakAfter)
        ELSE IF LB5CRLF(last, prop) THEN stop(RequireLineBreakAfter)
        ELSE IF last = "CR" THEN stop(RequireLineBreakBefore)
        ELSE IF prop \in {"LF", "NL"} THEN stop(RequireLineBreakAfter)
        ELSE IF prop \in {"BK", "CR", "LF", "NL"} THEN stop(NoLineBreak)
        ELSE IF LB7(prop) THEN stop(NoLineBreak)
        ELSE IF LB8(lb.inZeroWidthSpaceSeq, prop)
             THEN stop(AllowLineBreakBefore)
        ELSE IF last = "ZWJ" THEN stop(NoLineBreak)
        ELSE IF LB9(last, prop)
             THEN [decision |-> NoLineBreak,
                   prop |-> last,
                   riOdd |-> LB9RIOdd(last, ri)]
        ELSE IF last = "WJ" \/ prop = "WJ" THEN stop(NoLineBreak)
        ELSE IF last = "GL" THEN stop(NoLineBreak)
        ELSE IF last \notin {"SP", "BA", "HY"} /\ prop = "GL"
             THEN stop(NoLineBreak)
        ELSE IF prop \in {"CL", "CP", "EX", "IS", "SY"} THEN stop(NoLineBreak)
        ELSE IF lb.inLeftBraceSpaceSeq /\ prop # "SP" THEN stop(NoLineBreak)
        ELSE IF lb.inQuotationSpaceSeq /\ prop = "OP" THEN stop(NoLineBreak)
        ELSE IF lb.inClosePunctSpaceSeq /\ prop = "NS" THEN stop(NoLineBreak)
        ELSE IF lb.inDashSpaceSeq /\ prop = "B2" THEN stop(NoLineBreak)
        ELSE IF last = "SP" THEN stop(AllowLineBreakBefore)
        ELSE IF last = "QU" \/ prop = "QU" THEN stop(NoLineBreak)
        ELSE IF last = "CB" \/ prop = "CB" THEN stop(AllowLineBreakBefore)
        ELSE IF prop \in {"BA", "HY", "NS"} \/ last = "BB"
             THEN stop(NoLineBreak)
        ELSE IF lb.lastLastProp = "HL" /\ last \in {"HY", "BA"}
             THEN stop(NoLineBreak)
        ELSE IF last = "SY" /\ prop = "HL" THEN stop(NoLineBreak)
        ELSE IF prop = "IN" THEN stop(NoLineBreak)
        ELSE IF LB23(last, prop) THEN stop(NoLineBreak)
        ELSE IF LB23a(last, prop) THEN stop(NoLineBreak)
        ELSE IF LB24(last, prop) THEN stop(NoLineBreak)
        ELSE IF LB25(last, prop) THEN stop(NoLineBreak)
        ELSE IF LB26(last, prop) THEN stop(NoLineBreak)
        ELSE IF LB27(last, prop) THEN stop(NoLineBreak)
        ELSE IF LB28(last, prop) THEN stop(NoLineBreak)
        ELSE IF LB29(last, prop) THEN stop(NoLineBreak)
        ELSE IF LB30(last, prop, r) THEN stop(NoLineBreak)
        ELSE IF ri /\ prop = "RI" THEN stop(NoLineBreak)
        ELSE IF last = "EB" /\ prop = "EM" THEN stop(NoLineBreak)
        ELSE stop(AllowLineBreakBefore)

\* Lines 298-302: a run flag stays up through spaces; with the mutant that
\* lets a space take it down.
inSpaceSeq_NoSpaces(opens, inSeq, prop) == opens

inSpaceSeq(opens, inSeq, prop) == opens \/ (inSeq /\ prop = "SP")

\* The label done, lines 290-304: LB10, then the state for the next rune.
LBDone(lb, res) ==
    LET prop == IF res.prop = "CM" \/ (res.prop = "ZWJ" /\ lb.lastProp # lbPropNone)
                THEN "AL" ELSE res.prop
    IN  [lastLastProp         |-> lb.lastProp,
         lastProp             |-> prop,
         inZeroWidthSpaceSeq  |-> inSpaceSeq(prop = "ZW", lb.inZeroWidthSpaceSeq, prop),
         inLeftBraceSpaceSeq  |-> inSpaceSeq(prop = "OP", lb.inLeftBraceSpaceSeq, prop),
         inQuotationSpaceSeq  |-> inSpaceSeq(prop = "QU", lb.inQuotationSpaceSeq, prop),
         inClosePunctSpaceSeq |-> inSpaceSeq(prop \in {"CL", "CP"}, lb.inClosePunctSpaceSeq, prop),
         inDashSpaceSeq       |-> inSpaceSeq(prop = "B2", lb.inDashSpaceSeq, prop),
         lastPropsWereRIOdd   |-> (prop = "RI" /\ ~res.riOdd)]

\* ProcessRune, lines 39-305: the breaker after the rune, and the decision.
ProcessRune(lb, r) ==
    LET res == LBRules(lb, LB1(r), r)
    IN  [lb |-> LBDone(lb, res), decision |-> res.decision]

\* The runes handed to the breaker: one of every line-break class, an
\* unlisted code point, and for the classes the breaker looks further into
\* (SA: general category; OP, AL, NU after CP: East Asian width) one of
\* every kind.
Runes ==
    {Rune("U+2028", "BK", "Zl", "N"),  Rune("U+0301", "CM", "Mn", "A"),
     Rune("U+000D", "CR", "Cc", "N"),  Rune("U+00A0", "GL", "Zs", "N"),
     Rune("U+000A", "LF", "Cc", "N"),  Rune("U+0085", "NL", "Cc", "N"),
     Rune("U+0020", "SP", "Zs", "Na"), Rune("U+2060", "WJ", "Cf", "N"),
     Rune("U+200B", "ZW", "Cf", "N"),  Rune("U+00A7", "AI", "Po", "A"),
     Rune("U+0061", "AL", "Ll", "Na"), Rune("U+0062", "AL", "Ll", "Na"),
     Rune("U+FFE8", "AL", "So", "H"),  Rune("U+2014", "B2", "Pd", "A"),
     Rune("U+0009", "BA", "Cc", "N"),  Rune("U+00B4", "BB", "Sk", "A"),
     Rune("U+FFFC", "CB", "So", "N"),  Rune("U+3041", "CJ", "Lo", "W"),
     Rune("U+007D", "CL", "Pe", "Na"), Rune("U+0029", "CP", "Pe", "Na"),
     Rune("U+1F466", "EB", "So", "W"), Rune("U+1F3FB", "EM", "Sk", "W"),
     Rune("U+0021", "EX", "Po", "Na"), Rune("U+AC00", "H2", "Lo", "W"),
     Rune("U+AC01", "H3", "Lo", "W"),  Rune("U+05D0", "HL", "Lo", "N"),
     Rune("U+002D", "HY", "Pd", "Na"), Rune("U+4E00", "ID", "Lo", "W"),
     Rune("U+2026", "IN", "Po", "A"),  Rune("U+002C", "IS", "Po", "Na"),
     Rune("U+1100", "JL", "Lo", "W"),  Rune("U+11A8", "JT", "Lo", "N"),
     Rune("U+1160", "JV", "Lo", "N"),  Rune("U+203C", "NS", "Po", "N"),
     Rune("U+0030", "NU", "Nd", "Na"), Rune("U+0028", "OP", "Ps", "Na"),
     Rune("U+FF08", "OP", "Ps", "F"),  Rune("U+3008", "OP", "Ps", "W"),
     Rune("U+FF62", "OP", "Ps", "H"),  Rune("U+0025", "PO", "Po", "Na"),
     Rune("U+0024", "PR", "Sc", "Na"), Rune("U+0022", "QU", "Po", "Na"),
     Rune("U+1F1E6", "RI", "So", "N"), Rune("U+0E01", "SA", "Lo", "N"),
     Rune("U+0E31", "SA", "Mn", "N"),  Rune("U+102B", "SA", "Mc", "N"),
     Rune("U+D800", "SG", "Cs", "N"),  Rune("U+002F", "SY", "Po", "Na"),
     Rune("U+E000", "XX", "Co", "A"),  Rune("U+200D", "ZWJ", "Cf", "N"),
     Rune("U+0378", lbPropNone, "Cn", "N")}

\* No rune: what the histories hold before the first ProcessRune.
NoRune == Rune("", lbPropNone, "", "")

--------------------------------------------------------------------------
(* Wrapped lines: segment.WrappedLineIter (text/segment/line.go)           *)

\* The widest line and the longest input handed to the wrapped-line
\* iterator, and the tab stop of the width function CellWidth.
MaxLineWidth == 3

MaxClusters == 4

TabSize == 2

RuneAt(cp) == CHOOSE r \in Runes : r.cp = cp

\* Grapheme clusters, each the sequence of its runes: a letter, a zero-width
\* space, a wide ideograph, a tab, a line feed, a letter with an accent.
Clusters ==
    {<<RuneAt("U+0061")>>, <<RuneAt("U+200B")>>, <<RuneAt("U+4E00")>>,
     <<RuneAt("U+0009")>>, <<RuneAt("U+000A")>>,
     <<RuneAt("U+0061"), RuneAt("U+0301")>>}

\* Segment.HasNewline: the cluster holds a line feed.
HasNewline(gc) == \E i \in 1..Len(gc) : gc[i].cp = "U+000A"

\* GraphemeClusterWidthFunc, line 308: the functions handed to
\* NewLineWrapConfig.  CellWidth counts terminal cells: none for a format
\* character, two for a wide or fullwidth one, up to the next tab stop for a
\* tab, one otherwise.  UnitWidth counts clusters.
WidthFuncs == {"CellWidth", "UnitWidth"}

widthFunc(f, gc, offsetInLine) ==
    IF f = "UnitWidth" THEN 1
    ELSE IF gc[1].cp = "U+0009" THEN TabSize - (offsetInLine % TabSize)
    ELSE IF gc[1].gc = "Cf" THEN 0
    ELSE IF gc[1].ea \in {"W", "F"} THEN 2
    ELSE 1

\* NewLineWrapConfig, lines 319-325.
NewLineWrapConfig(maxLineWidth, f) == [maxLineWidth |-> maxLineWidth, widthFunc |-> f]

\* GraphemeClusterIter over the clusters of a text: NextSegment gives the
\* next cluster, or io.EOF after the last.  The iterator is the number of
\* clusters it has given; a copy of it advances on its own.
NewGraphemeClusterIter == 0

GCNextSegment(gcIter, input) ==
    IF gcIter < Len(input)
    THEN [err |-> "nil", gcSegment |-> input[gcIter + 1], gcIter |-> gcIter + 1]
    ELSE [err |-> "EOF", gcSegment |-> <<>>, gcIter |-> gcIter]

\* NewWrappedLineIter, lines 337-344.  clusters is a history: for every
\* cluster whose runes are in buffer, its place in the input and the width
\* the width function gave for it.
NewWrappedLineIter(wrapConfig) ==
    [wrapConfig   |-> wrapConfig,
     gcIter       |-> NewGraphemeClusterIter,
     buffer       |-> <<>>,
     currentWidth |-> 0,
     clusters     |-> <<>>]

\* Line 378, with the mutant that also wraps a cluster that just fits.
Overflows_WhenFull(currentWidth, gcWidth, maxLineWidth) ==
    currentWidth + gcWidth >= maxLineWidth

Overflows(currentWidth, gcWidth, maxLineWidth) ==
    currentWidth + gcWidth > maxLineWidth

\* Line 385: the cluster after a too-large one is a newline; with the
\* mutant that never looks.
NewlineFollows_Never(peek) == FALSE

NewlineFollows(peek) == peek.err = "nil" /\ HasNewline(peek.gcSegment)

\* Line 379: nothing of any width is on the line yet, so the cluster that
\* does not fit is too large for any line; with the mutant that wraps before
\* it all the same.
AtLineStart_Never(currentWidth) == FALSE

AtLineStart(currentWidth) == currentWidth = 0

\* WrappedLineIter.NextSegment, lines 349-409.  The result is the iterator
\* after the call, the runes of the segment, its clusters (history) and the
\* error.
RECURSIVE WrappedNextSegment(_, _)
WrappedNextSegment(iter, input) ==
    LET gc == GCNextSegment(iter.gcIter, input)
        it == [iter EXCEPT !.gcIter = gc.gcIter]
        gcWidth == widthFunc(iter.wrapConfig.widthFunc, gc.gcSegment, iter.currentWidth)
        here == [idx |-> gc.gcIter, width |-> gcWidth]
        newline == [idx |-> gc.gcIter, width |-> 0]
        peek == GCNextSegment(gc.gcIter, input)
    IN  IF gc.err = "EOF"
        THEN IF Len(iter.buffer) > 0
             THEN [iter |-> [it EXCEPT !.buffer = <<>>, !.clusters = <<>>],
                   segment |-> iter.buffer, clusters |-> iter.clusters,
                   err |-> "nil"]
             ELSE [iter |-> it, segment |-> <<>>, clusters |-> <<>>, err |-> "EOF"]
        ELSE IF HasNewline(gc.gcSegment)
        THEN [iter |-> [it EXCEPT !.buffer = <<>>, !.clusters = <<>>,
                                  !.currentWidth = 0],
              segment |-> iter.buffer \o gc.gcSegment,
              clusters |-> Append(iter.clusters, newline),
              err |-> "nil"]
        ELSE IF Overflows(iter.currentWidth, gcWidth, iter.wrapConfig.maxLineWidth)
        THEN IF AtLineStart(iter.currentWidth)
             THEN IF NewlineFollows(peek)
                  THEN [iter |-> [it EXCEPT !.gcIter = peek.gcIter],
                        segment |-> gc.gcSegment \o peek.gcSegment,
                        clusters |-> <<here, [idx |-> peek.gcIter, width |-> 0]>>,
                        err |-> "nil"]
                  ELSE [iter |-> it, segment |-> gc.gcSegment,
                        clusters |-> <<here>>, err |-> "nil"]
             ELSE [iter |-> [it EXCEPT !.buffer = gc.gcSegment,
                                       !.clusters = <<here>>,
                                       !.currentWidth = gcWidth],
                   segment |-> iter.buffer, clusters |-> iter.clusters,
                   err |-> "nil"]
        ELSE WrappedNextSegment(
                 [it EXCEPT !.buffer = iter.buffer \o gc.gcSegment,
                            !.clusters = Append(iter.clusters, here),
                            !.currentWidth = iter.currentWidth + gcWidth],
                 input)

\* The runs "opener, then spaces" in the classes of the runes processed so
\* far (histories lbRun, lbWin): a run starts at a rune of the opening class
\* and goes on through spaces -- and, for lbWin, through combining marks and
\* joiners that directly follow the opener or one another.
NoRuns == [OP |-> FALSE, QU |-> FALSE, CL |-> FALSE, B2 |-> FALSE]

Openers == [OP |-> {"OP"}, QU |-> {"QU"}, CL |-> {"CL", "CP"}, B2 |-> {"B2"}]

RunsAfter(run, c) ==
    [k \in DOMAIN run |-> c \in Openers[k] \/ (run[k] /\ c = "SP")]

WindowsAfter(win, c, before) ==
    [k \in DOMAIN win |->
        \/ c \in Openers[k]
        \/ win[k] /\ c = "SP"
        \/ win[k] /\ c \in {"CM", "ZWJ"} /\ before # "SP"]

\* ------------------------------------------------------------------------
\* Word motions and word objects (package locate).
\*
\* A text is a sequence of code points, one per grapheme cluster, and a
\* position counts clusters from 0, so the cluster at position p is
\* text[p + 1].  The package's tests fix its results on their inputs; the
\* scans below follow the description "scan cluster by cluster, a change of
\* class is a word boundary, an empty line is its own word".
\* ------------------------------------------------------------------------

\* Texts of up to MaxText characters are explored exhaustively.
MaxText == 4

\* 'a', '_', '/', ' ' and '\n': a letter, the underscore, a punctuation
\* character, a space and the line break.
LocAlphabet == {97, 95, 47, 32, 10}

\* seg.HasNewline for a one-rune cluster.
isNewline(r) == r = 10

\* seg.IsWhitespace for a one-rune cluster (unicode.IsSpace).
IsWhitespace(r) == r \in {9, 10, 11, 12, 13, 32, 133, 160}

\* The cases of TestIsPunct (locate tests): one per code point 0..127.
TestIsPunctCases ==
   {[r |-> 0, expectPunct |-> FALSE], [r |-> 1, expectPunct |-> FALSE], [r |-> 2, expectPunct |-> FALSE], [r |-> 3, expectPunct |-> FALSE],
    [r |-> 4, expectPunct |-> FALSE], [r |-> 5, expectPunct |-> FALSE], [r |-> 6, expectPunct |-> FALSE], [r |-> 7, expectPunct |-> FALSE],
    [r |-> 8, expectPunct |-> FALSE], [r |-> 9, expectPunct |-> FALSE], [r |-> 10, expectPunct |-> FALSE], [r |-> 11, expectPunct |-> FALSE],
    [r |-> 12, expectPunct |-> FALSE], [r |-> 13, expectPunct |-> FALSE], [r |-> 14, expectPunct |-> FALSE], [r |-> 15, expectPunct |-> FALSE],
    [r |-> 16, expectPunct |-> FALSE], [r |-> 17, expectPunct |-> FALSE], [r |-> 18, expectPunct |-> FALSE], [r |-> 19, expectPunct |-> FALSE],
    [r |-> 20, expectPunct |-> FALSE], [r |-> 21, expectPunct |-> FALSE], [r |-> 22, expectPunct |-> FALSE], [r |-> 23, expectPunct |-> FALSE],
    [r |-> 24, expectPunct |-> FALSE], [r |-> 25, expectPunct |-> FALSE], [r |-> 26, expectPunct |-> FALSE], [r |-> 27, expectPunct |-> FALSE],
    [r |-> 28, expectPunct |-> FALSE], [r |-> 29, expectPunct |-> FALSE], [r |-> 30, expectPunct |-> FALSE], [r |-> 31, expectPunct |-> FALSE],
    [r |-> 32, expectPunct |-> FALSE], [r |-> 33, expectPunct |-> TRUE], [r |-> 34, expectPunct |-> TRUE], [r |-> 35, expectPunct |-> TRUE],
    [r |-> 36, expectPunct |-> TRUE], [r |-> 37, expectPunct |-> TRUE], [r |-> 38, expectPunct |-> TRUE], [r |-> 39, expectPunct |-> TRUE],
    [r |-> 40, expectPunct |-> TRUE], [r |-> 41, expectPunct |-> TRUE], [r |-> 42, expectPunct |-> TRUE], [r |-> 43, expectPunct |-> TRUE],
    [r |-> 44, expectPunct |-> TRUE], [r |-> 45, expectPunct |-> TRUE], [r |-> 46, expectPunct |-> TRUE], [r |-> 47, expectPunct |-> TRUE],
    [r |-> 48, expectPunct |-> FALSE], [r |-> 49, expectPunct |-> FALSE], [r |-> 50, expectPunct |-> FALSE], [r |-> 51, expectPunct |-> FALSE],
    [r |-> 52, expectPunct |-> FALSE], [r |-> 53, expectPunct |-> FALSE], [r |-> 54, expectPunct |-> FALSE], [r |-> 55, expectPunct |-> FALSE],
    [r |-> 56, expectPunct |-> FALSE], [r |-> 57, expectPunct |-> FALSE], [r |-> 58, expectPunct |-> TRUE], [r |-> 59, expectPunct |-> TRUE],
    [r |-> 60, expectPunct |-> TRUE], [r |-> 61, expectPunct |-> TRUE], [r |-> 62, expectPunct |-> TRUE], [r |-> 63, expectPunct |-> TRUE],
    [r |-> 64, expectPunct |-> TRUE], [r |-> 65, expectPunct |-> FALSE], [r |-> 66, expectPunct |-> FALSE], [r |-> 67, expectPunct |-> FALSE],
    [r |-> 68, expectPunct |-> FALSE], [r |-> 69, expectPunct |-> FALSE], [r |-> 70, expectPunct |-> FALSE], [r |-> 71, expectPunct |-> FALSE],
    [r |-> 72, expectPunct |-> FALSE], [r |-> 73, expectPunct |-> FALSE], [r |-> 74, expectPunct |-> FALSE], [r |-> 75, expectPunct |-> FALSE],
    [r |-> 76, expectPunct |-> FALSE], [r |-> 77, expectPunct |-> FALSE], [r |-> 78, expectPunct |-> FALSE], [r |-> 79, expectPunct |-> FALSE],
    [r |-> 80, expectPunct |-> FALSE], [r |-> 81, expectPunct |-> FALSE], [r |-> 82, expectPunct |-> FALSE], [r |-> 83, expectPunct |-> FALSE],
    [r |-> 84, expectPunct |-> FALSE], [r |-> 85, expectPunct |-> FALSE], [r |-> 86, expectPunct |-> FALSE], [r |-> 87, expectPunct |-> FALSE],
    [r |-> 88, expectPunct |-> FALSE], [r |-> 89, expectPunct |-> FALSE], [r |-> 90, expectPunct |-> FALSE], [r |-> 91, expectPunct |-> TRUE],
    [r |-> 92, expectPunct |-> TRUE], [r |-> 93, expectPunct |-> TRUE], [r |-> 94, expectPunct |-> TRUE], [r |-> 95, expectPunct |-> FALSE],
    [r |-> 96, expectPunct |-> TRUE], [r |-> 97, expectPunct |-> FALSE], [r |-> 98, expectPunct |-> FALSE], [r |-> 99, expectPunct |-> FALSE],
    [r |-> 100, expectPunct |-> FALSE], [r |-> 101, expectPunct |-> FALSE], [r |-> 102, expectPunct |-> FALSE], [r |-> 103, expectPunct |-> FALSE],
    [r |-> 104, expectPunct |-> FALSE], [r |-> 105, expectPunct |-> FALSE], [r |-> 106, expectPunct |-> FALSE], [r |-> 107, expectPunct |-> FALSE],
    [r |-> 108, expectPunct |-> FALSE], [r |-> 109, expectPunct |-> FALSE], [r |-> 110, expectPunct |-> FALSE], [r |-> 111, expectPunct |-> FALSE],
    [r |-> 112, expectPunct |-> FALSE], [r |-> 113, expectPunct |-> FALSE], [r |-> 114, expectPunct |-> FALSE], [r |-> 115, expectPunct |-> FALSE],
    [r |-> 116, expectPunct |-> FALSE], [r |-> 117, expectPunct |-> FALSE], [r |-> 118, expectPunct |-> FALSE], [r |-> 119, expectPunct |-> FALSE],
    [r |-> 120, expectPunct |-> FALSE], [r |-> 121, expectPunct |-> FALSE], [r |-> 122, expectPunct |-> FALSE], [r |-> 123, expectPunct |-> TRUE],
    [r |-> 124, expectPunct |-> TRUE], [r |-> 125, expectPunct |-> TRUE], [r |-> 126, expectPunct |-> TRUE], [r |-> 127, expectPunct |-> FALSE]}
\* The cases of TestNextWordStart (locate tests): the text as code points, the
\* position and the result the test expects.
TestNextWordStartCases ==
   {[inputString |-> <<>>, pos |-> 0,
     expected |-> 0],
    [inputString |-> <<97, 98, 99, 32, 32, 32, 100, 101, 102, 103, 32, 32, 32, 104, 105, 106>>, pos |-> 1,
     expected |-> 6],
    [inputString |-> <<97, 98, 99, 32, 32, 32, 100, 101, 102, 103, 32, 32, 32, 104, 105, 106>>, pos |-> 4,
     expected |-> 6],
    [inputString |-> <<97, 98, 99, 10, 32, 32, 32, 49, 50, 51>>, pos |-> 1,
     expected |-> 7],
    [inputString |-> <<97, 98, 99, 10, 10, 32, 32, 32, 49, 50, 51>>, pos |-> 1,
     expected |-> 4],
    [inputString |-> <<97, 98, 99, 10, 10, 32, 32, 32, 49, 50, 51>>, pos |-> 4,
     expected |-> 8],
    [inputString |-> <<10, 10, 10, 10>>, pos |-> 1,
     expected |-> 2],
    [inputString |-> <<97, 98, 99, 47, 100, 101, 102, 47, 103, 104, 105>>, pos |-> 1,
     expected |-> 3],
    [inputString |-> <<97, 98, 99, 47, 100, 101, 102, 47, 103, 104, 105>>, pos |-> 3,
     expected |-> 4],
    [inputString |-> <<97, 98, 99, 47, 47, 47, 47, 99, 100, 101>>, pos |-> 3,
     expected |-> 7],
    [inputString |-> <<97, 98, 99, 95, 100, 101, 102, 32, 103, 104, 105>>, pos |-> 0,
     expected |-> 8],
    [inputString |-> <<102, 111, 111, 32, 98, 97, 114>>, pos |-> 5,
     expected |-> 7]}

\* The cases of TestNextWordEnd (locate tests): the text as code points, the
\* position and the result the test expects.
TestNextWordEndCases ==
   {[inputString |-> <<>>, pos |-> 0,
     expected |-> 0],
    [inputString |-> <<97, 98, 99, 32, 32, 32, 100, 101, 102, 103, 32, 32, 32, 104, 105, 106>>, pos |-> 6,
     expected |-> 9],
    [inputString |-> <<97, 98, 99, 32, 32, 32, 100, 101, 102, 103, 32, 32, 32, 104, 105, 106>>, pos |-> 7,
     expected |-> 9],
    [inputString |-> <<97, 98, 99, 32, 32, 32, 100, 101, 102, 103, 32, 32, 32, 104, 105, 106>>, pos |-> 2,
     expected |-> 9],
    [inputString |-> <<97, 98, 99, 32, 32, 32, 100, 101, 102, 103, 32, 32, 32, 104, 105, 106>>, pos |-> 4,
     expected |-> 9],
    [inputString |-> <<97, 98, 99, 10, 10, 32, 32, 32, 49, 50, 51, 32, 32, 32, 120, 121, 122>>, pos |-> 2,
     expected |-> 10],
    [inputString |-> <<97, 98, 99, 10, 10, 32, 32, 32, 49, 50, 51, 32, 32, 120, 121, 122>>, pos |-> 4,
     expected |-> 10],
    [inputString |-> <<97, 98, 99, 47, 100, 101, 102, 47, 103, 104, 105>>, pos |-> 1,
     expected |-> 2],
    [inputString |-> <<102, 111, 111, 32, 98, 97, 114>>, pos |-> 4,
     expected |-> 6],
    [inputString |-> <<102, 111, 111, 32, 98, 97, 114>>, pos |-> 5,
     expected |-> 6],
    [inputString |-> <<102, 111, 111, 32, 98, 97, 114>>, pos |-> 6,
     expected |-> 6]}

\* The cases of TestPrevWordStart (locate tests): the text as code points, the
\* position and the result the test expects.
TestPrevWordStartCases ==
   {[inputString |-> <<>>, pos |-> 0,
     expected |-> 0],
    [inputString |-> <<97, 98, 99, 32, 32, 32, 100, 101, 102, 103, 32, 32, 32, 104, 105, 106>>, pos |-> 6,
     expected |-> 0],
    [inputString |-> <<97, 98, 99, 32, 32, 32, 100, 101, 102, 103, 32, 32, 32, 104, 105, 106>>, pos |-> 12,
     expected |-> 6],
    [inputString |-> <<97, 98, 99, 10, 32, 32, 32, 49, 50, 51>>, pos |-> 7,
     expected |-> 0],
    [inputString |-> <<97, 98, 99, 10, 10, 32, 32, 32, 49, 50, 51>>, pos |-> 8,
     expected |-> 4],
    [inputString |-> <<97, 98, 99, 10, 10, 32, 32, 32, 49, 50, 51>>, pos |-> 4,
     expected |-> 0],
    [inputString |-> <<10, 10, 10, 10>>, pos |-> 2,
     expected |-> 1],
    [inputString |-> <<97, 98, 99, 47, 100, 101, 102, 47, 103, 104, 105>>, pos |-> 5,
     expected |-> 4]}

\* The cases of TestWordObject (locate tests): the text as code points, the
\* position and the result the test expects.
TestWordObjectCases ==
   {[inputString |-> <<>>, pos |-> 0,
     expected |-> <<0, 0>>],
    [inputString |-> <<97, 98, 99, 32, 32, 32, 100, 101, 102, 32, 32, 103, 104, 105>>, pos |-> 3,
     expected |-> <<3, 9>>],
    [inputString |-> <<97, 98, 99, 32, 32, 32, 100, 101, 102, 32, 32, 103, 104, 105>>, pos |-> 4,
     expected |-> <<3, 9>>],
    [inputString |-> <<97, 98, 99, 32, 32, 32, 100, 101, 102, 32, 32, 103, 104, 105>>, pos |-> 5,
     expected |-> <<3, 9>>],
    [inputString |-> <<97, 98, 99, 32, 100, 101, 102, 32, 32, 32, 32, 103, 104, 105>>, pos |-> 4,
     expected |-> <<4, 11>>],
    [inputString |-> <<97, 98, 99, 32, 100, 101, 102, 32, 32, 32, 32, 103, 104, 105>>, pos |-> 5,
     expected |-> <<4, 11>>],
    [inputString |-> <<97, 98, 99, 32, 100, 101, 102, 32, 32, 32, 32, 103, 104, 105>>, pos |-> 6,
     expected |-> <<4, 11>>],
    [inputString |-> <<97, 98, 99, 47, 100, 101, 102, 47, 103, 104, 105>>, pos |-> 4,
     expected |-> <<4, 7>>],
    [inputString |-> <<97, 98, 99, 47, 100, 101, 102, 47, 103, 104, 105>>, pos |-> 5,
     expected |-> <<4, 7>>],
    [inputString |-> <<97, 98, 99, 47, 100, 101, 102, 47, 103, 104, 105>>, pos |-> 6,
     expected |-> <<4, 7>>],
    [inputString |-> <<97, 98, 99, 47, 100, 101, 102, 47, 103, 104, 105>>, pos |-> 3,
     expected |-> <<3, 4>>],
    [inputString |-> <<97, 32, 32, 32, 47, 32, 32, 32, 98>>, pos |-> 4,
     expected |-> <<4, 8>>],
    [inputString |-> <<97, 98, 99, 47, 47, 47, 103, 104, 105>>, pos |-> 4,
     expected |-> <<3, 6>>],
    [inputString |-> <<102, 111, 111, 32, 32, 123, 98, 97, 114>>, pos |-> 3,
     expected |-> <<3, 6>>],
    [inputString |-> <<97, 98, 99, 10, 32, 32, 32, 32, 120, 121, 122>>, pos |-> 6,
     expected |-> <<4, 11>>],
    [inputString |-> <<97, 98, 99, 10, 10, 32, 32, 32, 49, 50, 51>>, pos |-> 4,
     expected |-> <<4, 11>>],
    [inputString |-> <<97, 98, 99, 10, 10, 49, 50, 51>>, pos |-> 4,
     expected |-> <<4, 8>>],
    [inputString |-> <<97, 98, 99, 100>>, pos |-> 0,
     expected |-> <<0, 4>>],
    [inputString |-> <<97, 98, 99, 100>>, pos |-> 2,
     expected |-> <<0, 4>>],
    [inputString |-> <<97, 98, 99, 100>>, pos |-> 3,
     expected |-> <<0, 4>>],
    [inputString |-> <<97, 98, 99, 32, 32, 32, 32>>, pos |-> 2,
     expected |-> <<0, 7>>],
    [inputString |-> <<97, 98, 99, 32, 32, 32, 32>>, pos |-> 4,
     expected |-> <<3, 7>>]}

\* The cases of TestInnerWordObject (locate tests): the text as code points, the
\* position and the result the test expects.
TestInnerWordObjectCases ==
   {[inputString |-> <<>>, pos |-> 0,
     expected |-> <<0, 0>>],
    [inputString |-> <<97, 98, 99, 32, 32, 32, 100, 101, 102, 32, 32, 103, 104, 105>>, pos |-> 3,
     expected |-> <<3, 6>>],
    [inputString |-> <<97, 98, 99, 32, 32, 32, 100, 101, 102, 32, 32, 103, 104, 105>>, pos |-> 4,
     expected |-> <<3, 6>>],
    [inputString |-> <<97, 98, 99, 32, 32, 32, 100, 101, 102, 32, 32, 103, 104, 105>>, pos |-> 5,
     expected |-> <<3, 6>>],
    [inputString |-> <<97, 98, 99, 32, 100, 101, 102, 32, 32, 32, 32, 103, 104, 105>>, pos |-> 4,
     expected |-> <<4, 7>>],
    [inputString |-> <<97, 98, 99, 32, 100, 101, 102, 32, 32, 32, 32, 103, 104, 105>>, pos |-> 5,
     expected |-> <<4, 7>>],
    [inputString |-> <<97, 98, 99, 32, 100, 101, 102, 32, 32, 32, 32, 103, 104, 105>>, pos |-> 6,
     expected |-> <<4, 7>>],
    [inputString |-> <<97, 98, 99, 47, 100, 101, 102, 47, 103, 104, 105>>, pos |-> 4,
     expected |-> <<4, 7>>],
    [inputString |-> <<97, 98, 99, 47, 100, 101, 102, 47, 103, 104, 105>>, pos |-> 5,
     expected |-> <<4, 7>>],
    [inputString |-> <<97, 98, 99, 47, 100, 101, 102, 47, 103, 104, 105>>, pos |-> 6,
     expected |-> <<4, 7>>],
    [inputString |-> <<97, 98, 99, 47, 100, 101, 102, 47, 103, 104, 105>>, pos |-> 3,
     expected |-> <<3, 4>>],
    [inputString |-> <<97, 32, 32, 32, 47, 32, 32, 32, 98>>, pos |-> 4,
     expected |-> <<4, 5>>],
    [inputString |-> <<97, 98, 99, 47, 47, 47, 103, 104, 105>>, pos |-> 4,
     expected |-> <<3, 6>>],
    [inputString |-> <<102, 111, 111, 32, 32, 123, 98, 97, 114>>, pos |-> 3,
     expected |-> <<3, 5>>],
    [inputString |-> <<97, 98, 99, 10, 32, 32, 32, 32, 120, 121, 122>>, pos |-> 6,
     expected |-> <<4, 8>>],
    [inputString |-> <<97, 98, 99, 10, 10, 32, 32, 32, 49, 50, 51>>, pos |-> 4,
     expected |-> <<4, 4>>],
    [inputString |-> <<97, 98, 99, 10, 10, 49, 50, 51>>, pos |-> 4,
     expected |-> <<4, 4>>],
    [inputString |-> <<97, 98, 99, 100>>, pos |-> 0,
     expected |-> <<0, 4>>],
    [inputString |-> <<97, 98, 99, 100>>, pos |-> 2,
     expected |-> <<0, 4>>],
    [inputString |-> <<97, 98, 99, 100>>, pos |-> 3,
     expected |-> <<0, 4>>],
    [inputString |-> <<97, 98, 99, 32, 32, 32, 32>>, pos |-> 2,
     expected |-> <<0, 3>>],
    [inputString |-> <<97, 98, 99, 32, 32, 32, 32>>, pos |-> 4,
     expected |-> <<3, 7>>]}

\* isPunct with the underscore counted as punctuation.
isPunct_WithUnderscore(r) ==
    \/ r = 95
    \/ \E tc \in TestIsPunctCases : tc.r = r /\ tc.expectPunct

\* isPunct: on 0..127 what TestIsPunct expects of it, false above.
isPunct(r) ==
    \E tc \in TestIsPunctCases : tc.r = r /\ tc.expectPunct

\* The three classes a scan tells apart.
charClass(r) ==
    IF IsWhitespace(r) THEN "whitespace"
    ELSE IF isPunct(r) THEN "punct"
    ELSE "word"

\* wordStartBoundary that does not stop at empty lines.
wordStartBoundary_NoEmptyLines(prev, r) ==
    ~IsWhitespace(r) /\ charClass(r) # charClass(prev)

\* A word starts at r, the cluster after prev: r follows a cluster of another
\* class, or r is the line break of an empty line.
wordStartBoundary(prev, r) ==
    \/ isNewline(prev) /\ isNewline(r)
    \/ ~IsWhitespace(r) /\ charClass(r) # charClass(prev)

\* wordEndBoundary that also stops at the end of a run of whitespace.
wordEndBoundary_StopsOnWhitespace(r, next) ==
    charClass(next) # charClass(r)

\* A word ends at r, the cluster before next.
wordEndBoundary(r, next) ==
    ~IsWhitespace(r) /\ charClass(next) # charClass(r)

\* lastPosition without the test for the empty text.
lastPosition_Unguarded(text) ==
    Len(text) - 1

\* The position of the last character, 0 in the empty text.
lastPosition(text) ==
    IF Len(text) = 0 THEN 0 ELSE Len(text) - 1

RECURSIVE nextWordStartScan(_, _, _)
\* The scan of NextWordStart, offset clusters after pos.
nextWordStartScan(text, pos, offset) ==
    LET p == pos + offset IN
    IF p >= Len(text) THEN Len(text)
    ELSE IF offset > 0 /\ wordStartBoundary(text[p], text[p + 1]) THEN p
    ELSE nextWordStartScan(text, pos, offset + 1)

\* NextWordStart: the next word start after pos.
NextWordStart(text, pos) ==
    nextWordStartScan(text, pos, 0)

RECURSIVE nextWordEndScan(_, _, _)
\* The scan of NextWordEnd, offset clusters after pos.
nextWordEndScan(text, pos, offset) ==
    LET p == pos + offset IN
    IF p >= Len(text) THEN lastPosition(text)
    ELSE IF /\ offset > 0
            /\ IF p + 1 = Len(text) THEN ~IsWhitespace(text[p + 1])
               ELSE wordEndBoundary(text[p + 1], text[p + 2])
         THEN p
    ELSE nextWordEndScan(text, pos, offset + 1)

\* NextWordEnd: the next word end after pos.
NextWordEnd(text, pos) ==
    nextWordEndScan(text, pos, 0)

RECURSIVE prevWordStartScan(_, _, _)
\* The scan of PrevWordStart, offset clusters before pos.
prevWordStartScan(text, pos, offset) ==
    IF offset >= pos THEN 0
    ELSE LET p == pos - offset IN
         IF wordStartBoundary(text[p], text[p + 1]) THEN p
         ELSE prevWordStartScan(text, pos, offset + 1)

\* PrevWordStart that starts its scan at pos itself.
PrevWordStart_FromPos(text, pos) ==
    prevWordStartScan(text, pos, 0)

\* PrevWordStart: the previous word start before pos.
PrevWordStart(text, pos) ==
    prevWordStartScan(text, pos, 1)

\* sameRun that lets a run continue across a line break.
sameRun_CrossesLines(r, next) ==
    charClass(r) = charClass(next)

\* Two adjacent clusters belong to one run: same class, neither a line break.
sameRun(r, next) ==
    /\ ~isNewline(r)
    /\ ~isNewline(next)
    /\ charClass(r) = charClass(next)

RECURSIVE runStart(_, _)
\* The first position of the run that contains position p.
runStart(text, p) ==
    IF p > 0 /\ sameRun(text[p], text[p + 1]) THEN runStart(text, p - 1)
    ELSE p

RECURSIVE runEnd(_, _)
\* The position after the run that contains position p.
runEnd(text, p) ==
    IF p + 1 < Len(text) /\ sameRun(text[p + 1], text[p + 2])
    THEN runEnd(text, p + 1)
    ELSE p + 1

\* The line break at pos is an empty line.
onEmptyLine(text, pos) ==
    /\ isNewline(text[pos + 1])
    /\ pos = 0 \/ isNewline(text[pos])

\* InnerWordObject: the run under pos.
InnerWordObject(text, pos) ==
    IF Len(text) = 0 THEN <<0, 0>>
    ELSE IF onEmptyLine(text, pos) THEN <<pos, pos>>
    ELSE <<runStart(text, pos), runEnd(text, pos)>>

\* trailingWhitespace that includes the line break.
trailingWhitespace_AcrossLines(r) ==
    IsWhitespace(r)

\* Whitespace that a word object takes along after its word.
trailingWhitespace(r) ==
    IsWhitespace(r) /\ ~isNewline(r)

RECURSIVE skipTrailingWhitespace(_, _)
\* The first position from p on that is not whitespace of the same line.
skipTrailingWhitespace(text, p) ==
    IF p < Len(text) /\ trailingWhitespace(text[p + 1])
    THEN skipTrailingWhitespace(text, p + 1)
    ELSE p

RECURSIVE skipWhitespace(_, _)
\* The first position from p on that is not whitespace.
skipWhitespace(text, p) ==
    IF p < Len(text) /\ IsWhitespace(text[p + 1])
    THEN skipWhitespace(text, p + 1)
    ELSE p

\* WordObject: the run under pos with its adjacent whitespace.
WordObject(text, pos) ==
    IF Len(text) = 0 THEN <<0, 0>>
    ELSE IF IsWhitespace(text[pos + 1])
    THEN LET next == skipWhitespace(text, pos) IN
         <<runStart(text, pos),
           IF next >= Len(text) THEN Len(text) ELSE runEnd(text, next)>>
    ELSE <<runStart(text, pos),
           skipTrailingWhitespace(text, runEnd(text, pos))>>

\* ------------------------------------------------------------------------
\* Cursor motions and deletions of package input that search for a target.
\*
\* The actions are closures over locate's searches and state.MoveCursor /
\* state.DeleteToPos; each closure is modelled by the position it returns.
\* ------------------------------------------------------------------------

\* Editor texts of up to MaxInputText characters are explored.
MaxInputText == 3

\* 'a', '(', ')', '{', '}' and '\n'.
InputAlphabet == {97, 40, 41, 123, 125, 10}

\* The characters searched for.
SearchChars == {97, 41}

\* The counts handed to the character searches.
MaxCount == 2

\* What a search in locate returns when it finds nothing.
NoMatch == [found |-> FALSE, pos |-> 0]

Match(pos) == [found |-> TRUE, pos |-> pos]

RECURSIVE nextMatchingCharScan(_, _, _, _)
\* The position of the count-th char after position q - 1 on its line.
nextMatchingCharScan(text, char, count, q) ==
    IF q >= Len(text) \/ isNewline(text[q + 1]) THEN NoMatch
    ELSE IF text[q + 1] # char THEN nextMatchingCharScan(text, char, count, q + 1)
    ELSE IF count > 1 THEN nextMatchingCharScan(text, char, count - 1, q + 1)
    ELSE Match(q)

\* locate.NextMatchingCharInLine.
NextMatchingCharInLine(text, char, count, includeChar, pos) ==
    LET m == nextMatchingCharScan(text, char, count, pos + 1)
    IN  IF m.found /\ ~includeChar THEN Match(m.pos - 1) ELSE m

RECURSIVE prevMatchingCharScan(_, _, _, _)
\* The position of the count-th char before position q + 1 on its line.
prevMatchingCharScan(text, char, count, q) ==
    IF q < 0 \/ isNewline(text[q + 1]) THEN NoMatch
    ELSE IF text[q + 1] # char THEN prevMatchingCharScan(text, char, count, q - 1)
    ELSE IF count > 1 THEN prevMatchingCharScan(text, char, count - 1, q - 1)
    ELSE Match(q)

\* locate.PrevMatchingCharInLine.
PrevMatchingCharInLine(text, char, count, includeChar, pos) ==
    LET m == prevMatchingCharScan(text, char, count, pos - 1)
    IN  IF m.found /\ ~includeChar THEN Match(m.pos + 1) ELSE m

\* locate.NextCharInLine(tree, 1, true, pos): one character on, at most onto
\* the line break or the end of the text.
NextCharInLine(text, pos) ==
    IF pos < Len(text) /\ ~isNewline(text[pos + 1]) THEN pos + 1 ELSE pos

\* locate.ClosestCharOnLine: off the line break or the end of the text, back
\* onto the last character of the line if it has one.
ClosestCharOnLine(text, pos) ==
    LET p == IF pos > Len(text) THEN Len(text) ELSE pos
    IN  IF /\ p = Len(text) \/ isNewline(text[p + 1])
           /\ p > 0
           /\ ~isNewline(text[p])
        THEN p - 1 ELSE p

\* locate.BracePair and locate.ParenPair.
BracePair == [open |-> 123, close |-> 125]

ParenPair == [open |-> 40, close |-> 41]

RECURSIVE prevUnmatchedOpenScan(_, _, _, _)
prevUnmatchedOpenScan(pair, text, q, depth) ==
    IF q < 0 THEN NoMatch
    ELSE IF text[q + 1] = pair.open
    THEN IF depth = 0 THEN Match(q)
         ELSE prevUnmatchedOpenScan(pair, text, q - 1, depth - 1)
    ELSE IF text[q + 1] = pair.close
    THEN prevUnmatchedOpenScan(pair, text, q - 1, depth + 1)
    ELSE prevUnmatchedOpenScan(pair, text, q - 1, depth)

\* locate.PrevUnmatchedOpenDelimiter, outside any syntax token.
PrevUnmatchedOpenDelimiter(pair, text, pos) ==
    prevUnmatchedOpenScan(pair, text, pos - 1, 0)

RECURSIVE nextUnmatchedCloseScan(_, _, _, _)
nextUnmatchedCloseScan(pair, text, q, depth) ==
    IF q >= Len(text) THEN NoMatch
    ELSE IF text[q + 1] = pair.close
    THEN IF depth = 0 THEN Match(q)
         ELSE nextUnmatchedCloseScan(pair, text, q + 1, depth - 1)
    ELSE IF text[q + 1] = pair.open
    THEN nextUnmatchedCloseScan(pair, text, q + 1, depth + 1)
    ELSE nextUnmatchedCloseScan(pair, text, q + 1, depth)

\* locate.NextUnmatchedCloseDelimiter, outside any syntax token.
NextUnmatchedCloseDelimiter(pair, text, pos) ==
    nextUnmatchedCloseScan(pair, text, pos + 1, 0)

\* locate.MatchingCodeBlockDelimiter, outside any syntax token.
MatchingCodeBlockDelimiter(text, pos) ==
    IF pos >= Len(text) THEN NoMatch
    ELSE LET c == text[pos + 1] IN
         IF c \in {BracePair.open, ParenPair.open}
         THEN NextUnmatchedCloseDelimiter(
                  IF c = BracePair.open THEN BracePair ELSE ParenPair, text, pos)
         ELSE IF c \in {BracePair.close, ParenPair.close}
         THEN PrevUnmatchedOpenDelimiter(
                  IF c = BracePair.close THEN BracePair ELSE ParenPair, text, pos)
         ELSE NoMatch

\* The editor state an action acts on: the text and the cursor position.
EditorState(text, cursorPos) == [text |-> text, cursorPos |-> cursorPos]

\* state.MoveCursor(s, loc), given the position loc returned.
MoveCursor(s, pos) == [s EXCEPT !.cursorPos = pos]

\* state.DeleteToPos(s, loc, page), given the position loc returned: the
\* characters between the cursor and that position go, and the cursor is at
\* the lower of the two.
DeleteToPos(s, pos) ==
    LET from == IF pos < s.cursorPos THEN pos ELSE s.cursorPos
        to == IF pos < s.cursorPos THEN s.cursorPos ELSE pos
    IN  EditorState(SubSeq(s.text, 1, from) \o SubSeq(s.text, to + 1, Len(s.text)),
                    from)

\* The locator of a motion without its test of the search's result.
locatorOf_Unguarded(m, cursorPos) ==
    m.pos

\* The locator of the cursor motions: the position found, "if !found" or
\* "if hasMatch ... else" the cursor position.
locatorOf(m, cursorPos) ==
    IF ~m.found THEN cursorPos ELSE m.pos

\* The closure of CursorToNextMatchingChar.
CursorToNextMatchingChar(s, char, count, includeChar) ==
    MoveCursor(s, locatorOf(NextMatchingCharInLine(s.text, char, count, includeChar, s.cursorPos),
                            s.cursorPos))

\* The closure of CursorToPrevMatchingChar.
CursorToPrevMatchingChar(s, char, count, includeChar) ==
    MoveCursor(s, locatorOf(PrevMatchingCharInLine(s.text, char, count, includeChar, s.cursorPos),
                            s.cursorPos))

CursorMatchingCodeBlockDelimiter(s) ==
    MoveCursor(s, locatorOf(MatchingCodeBlockDelimiter(s.text, s.cursorPos), s.cursorPos))

CursorPrevUnmatchedOpenBrace(s) ==
    MoveCursor(s, locatorOf(PrevUnmatchedOpenDelimiter(BracePair, s.text, s.cursorPos),
                            s.cursorPos))

CursorNextUnmatchedCloseBrace(s) ==
    MoveCursor(s, locatorOf(NextUnmatchedCloseDelimiter(BracePair, s.text, s.cursorPos),
                            s.cursorPos))

CursorPrevUnmatchedOpenParen(s) ==
    MoveCursor(s, locatorOf(PrevUnmatchedOpenDelimiter(ParenPair, s.text, s.cursorPos),
                            s.cursorPos))

CursorNextUnmatchedCloseParen(s) ==
    MoveCursor(s, locatorOf(NextUnmatchedCloseDelimiter(ParenPair, s.text, s.cursorPos),
                            s.cursorPos))

\* The closure of DeleteToNextMatchingChar: delete up to and including the
\* position found, then put the cursor on a character of its line.
DeleteToNextMatchingChar(s, char, count, includeChar) ==
    LET m == NextMatchingCharInLine(s.text, char, count, includeChar, s.cursorPos)
        deleted == DeleteToPos(s, IF ~m.found THEN s.cursorPos
                                  ELSE NextCharInLine(s.text, m.pos))
    IN  MoveCursor(deleted, ClosestCharOnLine(deleted.text, deleted.cursorPos))

\* The closure of DeleteToPrevMatchingChar.
DeleteToPrevMatchingChar(s, char, count, includeChar) ==
    LET m == PrevMatchingCharInLine(s.text, char, count, includeChar, s.cursorPos)
    IN  DeleteToPos(s, IF ~m.found THEN s.cursorPos ELSE m.pos)

\* ------------------------------------------------------------------------
\* Scrolling and the actions on counted lines (package input).  The counts
\* are uint64.  Of package locate the actions use the starts of lines, and
\* of package state the functions they hand a number of lines or a target
\* position to; neither is among the sources.  A line start is taken as the
\* text says it, clamped to the lines there are, and of a call into package
\* state the model keeps what it was called with.

\* The longest text, the largest ctx.ScrollLines and the largest count.
MaxLineText == 3

MaxScrollLines == 3

MaxLineCount == 2

\* 'a', ' ' and '\n'.
LineAlphabet == {97, 32, 10}

\* The number of the line position pos is in, and of the last line.
lineNumAt(text, pos) ==
    Cardinality({i \in 1..Min(pos, Len(text)) : isNewline(text[i])})

lastLineNum(text) == lineNumAt(text, Len(text))

\* locate.StartOfLineNum: the start of line lineNum, of the last line when
\* there are fewer.
StartOfLineNum(text, lineNum) ==
    LET n == Min(lineNum, lastLineNum(text))
    IN  CHOOSE p \in 0..Len(text) :
            /\ lineNumAt(text, p) = n
            /\ p = 0 \/ isNewline(text[p])

\* locate.StartOfLineBelow and locate.StartOfLineAbove: the start of the
\* line count lines below or above the line of pos.
StartOfLineBelow(text, count, pos) ==
    StartOfLineNum(text, lineNumAt(text, pos) + count)

StartOfLineAbove(text, count, pos) ==
    LET n == lineNumAt(text, pos)
    IN  StartOfLineNum(text, IF count > n THEN 0 ELSE n - count)

\* locate.NextNonWhitespaceOrNewline: from pos on, the first position that
\* holds no whitespace or holds a line break, or the end of the text.
RECURSIVE NextNonWhitespaceOrNewline(_, _)
NextNonWhitespaceOrNewline(text, pos) ==
    IF pos >= Len(text) THEN Len(text)
    ELSE IF isNewline(text[pos + 1]) \/ ~IsWhitespace(text[pos + 1]) THEN pos
    ELSE NextNonWhitespaceOrNewline(text, pos + 1)

\* The call an action makes: the number of lines it hands to the locator
\* (for CursorStartOfLineNum: the line number), the number of lines it
\* hands to state.ScrollViewByNumLines (0: no such call), the position the
\* locator returns, and the editor state after it.
LineCall(lines, scrolled, target, after) ==
    [lines |-> lines, scrolled |-> scrolled, target |-> target, after |-> after]

\* ScrollUp and ScrollDown, lines 886-891 and 904-909: the lines to scroll.
scrollLines(ScrollLines, half) ==
    IF ScrollLines < 1 THEN 1
    ELSE IF half THEN ScrollLines \div 2
    ELSE ScrollLines

\* The closure of ScrollUp, lines 893-900.
ScrollUp(s, ScrollLines, half) ==
    LET n == scrollLines(ScrollLines, half)
        pos == StartOfLineAbove(s.text, n, s.cursorPos)
    IN  LineCall(n, n, pos, MoveCursor(s, pos))

\* The closure of ScrollDown, lines 911-918.
ScrollDown(s, ScrollLines, half) ==
    LET n == scrollLines(ScrollLines, half)
        pos == StartOfLineBelow(s.text, n, s.cursorPos)
    IN  LineCall(n, n, pos, MoveCursor(s, pos))

\* CursorStartOfLineNum, lines 946-959.
CursorStartOfLineNum(s, count) ==
    LET lineNum == IF count > 0 THEN Sub64(count, 1) ELSE count
        lineStartPos == StartOfLineNum(s.text, lineNum)
        pos == NextNonWhitespaceOrNewline(s.text, lineStartPos)
    IN  LineCall(lineNum, 0, pos, MoveCursor(s, pos))

\* DeleteLines, lines 1183-1194, up to the call of state.DeleteLines with
\* the locator targetLoc.
DeleteLines(s, count) ==
    LET lines == IF count > 0 THEN Sub64(count, 1) ELSE count
    IN  LineCall(lines, 0, StartOfLineBelow(s.text, lines, s.cursorPos), s)

\* IndentLine, lines 1408-1415, up to the call of state.IndentLines with the
\* locator targetLineLoc.
IndentLine(s, count) ==
    LET lines == Sub64(count, 1)
    IN  LineCall(lines, 0, StartOfLineBelow(s.text, lines, s.cursorPos), s)

\* OutdentLine, lines 1417-1424, up to the call of state.OutdentLines.
OutdentLine(s, count) ==
    LET lines == Sub64(count, 1)
    IN  LineCall(lines, 0, StartOfLineBelow(s.text, lines, s.cursorPos), s)

--------------------------------------------------------------------------
(* State *)

VARIABLES
    tree,      \* the *Tree a constructor returned (NilTree: nil)
    groups,    \* the arena of leaf node groups
    err,       \* the error a constructor returned ("nil": nil)
    panicked,  \* an operation indexed an array out of range
    cursor,    \* the live *Cursor
    curState,  \* "none": no cursor; "open"; "eof": Read has returned io.EOF
    out,       \* the bytes the live cursor's Reads have returned so far
    curFrom,   \* history: how the cursor was made, <<"pos", p>> or <<"line", L>>
    curStart,  \* history: the cursor as CursorAtPosition / CursorAtLine returned it
    content,   \* history: the characters of the document as a flat sequence
    src,       \* history: the bytes of the reader the tree was built from
    rdMode,    \* history: that reader's mode ("none" for NewTree)
    rdFailed,  \* history: a Read failed or the validator rejected the stream
    edited,    \* history: a DeleteAtPosition has removed a character
    lastOp,    \* history: the operation that acted last
    lastDel,   \* history: the character the last DeleteAtPosition removed
    lb,          \* the LineBreaker
    lbDecision,  \* the decision its last ProcessRune returned
    lbRune,      \* history: the rune it processed last (NoRune: none yet)
    lbPrevRune,  \* history: the rune it processed before that one
    lbRun,       \* history: the runs "opener, spaces" the last rune is in
    lbRunBefore, \* history: lbRun before the last rune
    lbWin,       \* history: the same runs, going on through attached marks
    lbWinBefore, \* history: lbWin before the last rune
    lbBase,         \* a LineBreaker that is given the runes but the attached marks
    lbBaseDecision, \* the decision its last ProcessRune returned
    riRun,          \* history: the regional indicators in the run the last rune is in
    zwRun,          \* history: the last rune is in a run "zero-width space, spaces"
    zwRunBefore,    \* history: zwRun before the last rune
    wIter,     \* the WrappedLineIter
    wState,    \* "none": not constructed; "open"; "eof": io.EOF returned
    wInput,    \* history: the clusters of the text it reads
    wSegments, \* the segments NextSegment has returned, each its runes
    wClusters, \* history: the clusters of each of these segments
    stale,     \* history: a DeleteAtPosition ran while the cursor was alive
    locText,    \* the text the locate functions are called on
    locOp,      \* "none", "open", or the function called last
    locPos,     \* the position (for isPunct: the rune) it was called with
    locResult,  \* the position the last motion returned
    locObject,  \* the <<start, end>> the last text object returned
    locIsPunct, \* what isPunct returned
    locClass,   \* the class of the rune classified
    inState,   \* the editor state: its text and cursor position
    inOp,      \* "none", "open", or the action that ran last
    inBefore,  \* history: the editor state before that action
    inMatch,   \* history: what that action's search returned
    inCount,   \* history: the count or ctx.ScrollLines that action was made with
    inCall     \* history: the call that action made (LineCall)

docVars == <<tree, groups, err, panicked, cursor, curState, out, curFrom, curStart,
             content, src, rdMode, rdFailed, edited, lastOp, lastDel, stale>>

textVars == <<lbBase, lbBaseDecision, riRun, zwRun, zwRunBefore>>

breakerVars == <<lb, lbDecision, lbRune, lbPrevRune, lbRun, lbRunBefore,
                 lbWin, lbWinBefore, textVars>>

wrapVars == <<wIter, wState, wInput, wSegments, wClusters>>

segmentVars == <<breakerVars, wrapVars>>

locateVars == <<locText, locOp, locPos, locResult, locObject, locIsPunct, locClass>>

inputVars == <<inState, inOp, inBefore, inMatch>>

lineVars == <<inCount, inCall>>

editorVars == <<locateVars, inputVars, lineVars>>

vars == <<docVars, breakerVars, wrapVars, editorVars>>

treeVars == <<tree, groups, err, panicked, content, src, rdMode, rdFailed>>

cursorVars == <<cursor, curState, out, curFrom, curStart>>

NoCursor == NewCursor(0, 0, 0)

Init ==
    /\ tree = NilTree
    /\ groups = <<>>
    /\ err = "nil"
    /\ panicked = FALSE
    /\ cursor = NoCursor
    /\ curState = "none"
    /\ out = <<>>
    /\ curFrom = <<"none", 0>>
    /\ curStart = NoCursor
    /\ content = <<>>
    /\ src = <<>>
    /\ rdMode = "none"
    /\ rdFailed = FALSE
    /\ edited = FALSE
    /\ lastOp = "none"
    /\ lastDel = <<>>
    /\ lb = LineBreaker
    /\ lbDecision = NoLineBreak
    /\ lbRune = NoRune
    /\ lbPrevRune = NoRune
    /\ lbRun = NoRuns
    /\ lbRunBefore = NoRuns
    /\ lbWin = NoRuns
    /\ lbWinBefore = NoRuns
    /\ lbBase = LineBreaker
    /\ lbBaseDecision = NoLineBreak
    /\ riRun = 0
    /\ zwRun = FALSE
    /\ zwRunBefore = FALSE
    /\ wIter = NewWrappedLineIter(NewLineWrapConfig(1, "UnitWidth"))
    /\ wState = "none"
    /\ wInput = <<>>
    /\ wSegments = <<>>
    /\ wClusters = <<>>
    /\ stale = FALSE
    /\ locText = <<>>
    /\ locOp = "none"
    /\ locPos = 0
    /\ locResult = 0
    /\ locObject = <<0, 0>>
    /\ locIsPunct = FALSE
    /\ locClass = "word"
    /\ inState = EditorState(<<>>, 0)
    /\ inOp = "none"
    /\ inBefore = EditorState(<<>>, 0)
    /\ inMatch = NoMatch
    /\ inCount = 0
    /\ inCall = LineCall(0, 0, 0, EditorState(<<>>, 0))

\* NewTree: a root with one key over a leaf group of one empty leaf.
NewTree ==
    /\ lastOp = "none"
    /\ tree' = Tree([ZeroInner EXCEPT !.numKeys = 1, !.child = LeafRef(1)])
    /\ groups' = <<LeafGroup(1)>>
    /\ err' = "nil"
    /\ content' = <<>>
    /\ lastOp' = "NewTree"
    /\ UNCHANGED <<panicked, src, rdMode, rdFailed, edited, lastDel, stale>>
    /\ UNCHANGED cursorVars
    /\ UNCHANGED <<segmentVars, editorVars>>

\* Whether the loop of bulkLoadIntoLeaves over this reader meets a failed
\* Read, a rejected chunk or a rejected end of stream.
RECURSIVE ReaderFails(_, _)
ReaderFails(r, v) ==
    LET rd == ReaderRead(r)
    IN  \/ rd.err \notin {"nil", "EOF"}
        \/ /\ rd.bytes # <<>>
           /\ ValidateBytes(v, rd.bytes) = Rejected
        \/ /\ rd.bytes = <<>>
           /\ ~ValidateEnd(v)
        \/ /\ rd.bytes # <<>>
           /\ ReaderFails(rd.next, ValidateBytes(v, rd.bytes))

\* NewTreeFromReader(r), lines 32-39.
LoadFrom(r) ==
    LET ld == bulkLoadIntoLeaves(r)
        root == buildTreeFromLeaves(ld.groups)
    IN  /\ panicked' = ld.panic
        /\ IF ld.panic \/ ld.err # "nil"
           THEN /\ tree' = NilTree
                /\ groups' = <<>>
                /\ err' = ld.err
                /\ content' = <<>>
           ELSE /\ tree' = Tree(root)
                /\ groups' = ld.groups
                /\ err' = "nil"
                /\ content' = SplitChars(TreeText(root, ld.groups))
        /\ src' = r.data
        /\ rdMode' = r.mode
        /\ rdFailed' = ReaderFails(r, NewValidator)
        /\ UNCHANGED <<edited, lastDel, stale>>
        /\ UNCHANGED cursorVars
        /\ UNCHANGED <<segmentVars, editorVars>>

NewTreeFromReader(data, chunk, mode) ==
    /\ lastOp = "none"
    /\ LoadFrom(NewReader(data, chunk, mode))
    /\ lastOp' = "NewTreeFromReader"

\* NewTreeFromString(s): a strings.Reader fills the loader's buffer.
NewTreeFromString(doc) ==
    /\ lastOp = "none"
    /\ LoadFrom(NewReader(Flatten(doc), bufLen, "plain"))
    /\ lastOp' = "NewTreeFromString"

DeleteAtPosition(charPos) ==
    LET r == innerDeleteAtPosition(tree.root, groups, charPos)
    IN  /\ ~tree.isNil
        /\ ~panicked
        /\ curState = "none"
        /\ tree' = Tree(r.node)
        /\ groups' = r.groups
        /\ panicked' = r.panic
        /\ content' = IF charPos < Len(content)
                      THEN RemoveAt(content, charPos + 1) ELSE content
        /\ lastDel' = IF charPos < Len(content) THEN content[charPos + 1] ELSE <<>>
        /\ edited' = (edited \/ charPos < Len(content))
        /\ lastOp' = "DeleteAtPosition"
        /\ UNCHANGED <<err, src, rdMode, rdFailed, stale>>
        /\ UNCHANGED cursorVars
        /\ UNCHANGED <<segmentVars, editorVars>>

\* The byte strings handed to NewTreeFromReader: the short documents, and
\* each of them with one byte missing (a truncated or headless character).
Inputs ==
    {Flatten(d) : d \in ShortDocs}
        \cup UNION {{RemoveAt(Flatten(d), i) : i \in 1..Len(Flatten(d))} : d \in ShortDocs}

\* The positions handed to the tree: every offset of the document, the two
\* after its end, and the largest uint64.
Positions == 0..(Len(content) + 1) \cup {MaxUint64}

--------------------------------------------------------------------------
(* Reading through a cursor *)

OpenCursorAtPosition(charPos) ==
    /\ ~tree.isNil
    /\ curState = "none"
    /\ cursor' = CursorAtPosition(tree.root, groups, charPos)
    /\ curStart' = cursor'
    /\ curState' = "open"
    /\ out' = <<>>
    /\ curFrom' = <<"pos", charPos>>
    /\ lastOp' = "CursorAtPosition"
    /\ UNCHANGED treeVars
    /\ UNCHANGED <<edited, lastDel, stale>>
    /\ UNCHANGED <<segmentVars, editorVars>>

OpenCursorAtLine(lineNum) ==
    /\ ~tree.isNil
    /\ curState = "none"
    /\ cursor' = CursorAtLine(tree.root, groups, lineNum)
    /\ curStart' = cursor'
    /\ curState' = "open"
    /\ out' = <<>>
    /\ curFrom' = <<"line", lineNum>>
    /\ lastOp' = "CursorAtLine"
    /\ UNCHANGED treeVars
    /\ UNCHANGED <<edited, lastDel, stale>>
    /\ UNCHANGED <<segmentVars, editorVars>>

\* Cursor.Read(b) with len(b) = n.
Read(n) ==
    LET r == CursorRead(cursor, groups, n)
    IN  /\ curState = "open"
        /\ ~panicked
        /\ cursor' = r.cursor
        /\ out' = out \o r.bytes
        /\ curState' = IF r.err = "EOF" THEN "eof" ELSE "open"
        /\ panicked' = r.panic
        /\ lastOp' = "Read"
        /\ UNCHANGED <<tree, groups, err, content, src, rdMode, rdFailed>>
        /\ UNCHANGED <<curFrom, curStart, edited, lastDel, stale>>
        /\ UNCHANGED <<segmentVars, editorVars>>

NumNewlines(chars) == CountNL(Flatten(chars))

Lines == 0..(NumNewlines(content) + 1) \cup {MaxUint64}

\* The constructors act on a fresh state only: one tree per document.  The
\* tree is edited while no cursor is alive.
Next ==
    \/ NewTree
    \/ /\ lastOp = "none"
       /\ \E doc \in Docs : NewTreeFromString(doc)
    \/ /\ lastOp = "none"
       /\ \E data \in Inputs, chunk \in 1..bufLen, mode \in ReaderModes :
              NewTreeFromReader(data, chunk, mode)
    \/ /\ ~tree.isNil
       /\ curState = "none"
       /\ \E charPos \in Positions : DeleteAtPosition(charPos)
    \/ /\ curState = "none"
       /\ \E charPos \in Positions : OpenCursorAtPosition(charPos)
    \/ /\ curState = "none"
       /\ \E lineNum \in Lines : OpenCursorAtLine(lineNum)
    \/ /\ curState = "open"
       /\ \E n \in 1..MaxBuf : Read(n)

Spec == Init /\ [][Next]_vars

--------------------------------------------------------------------------
(* The document as a flat sequence, to state the claims against *)

IsPrefix(a, b) == Len(a) <= Len(b) /\ SubSeq(b, 1, Len(a)) = a

\* The bytes of the characters from offset p on.
Suffix(chars, p) == Flatten(SubSeq(chars, p + 1, Len(chars)))

\* The bytes after the k-th newline (k >= 1) of a byte string.
RECURSIVE AfterNewline(_, _)
AfterNewline(bs, k) ==
    IF bs = <<>> THEN <<>>
    ELSE IF Head(bs) = NL
         THEN IF k = 1 THEN Tail(bs) ELSE AfterNewline(Tail(bs), k - 1)
         ELSE AfterNewline(Tail(bs), k)

\* The bytes of line L on, to the end of the document.
FromLine(chars, L) == IF L = 0 THEN Flatten(chars) ELSE AfterNewline(Flatten(chars), L)

\* The leaves in use, group after group along the arena.
AllLeaves ==
    Flatten([g \in 1..Len(groups) |->
                [k \in 1..groups[g].numNodes |-> groups[g].nodes[k]]])

\* A leaf that has become empty between two leaves that hold text.
EmptyLeafInTheMiddle ==
    \E i, j, k \in 1..Len(AllLeaves) :
        /\ i < j /\ j < k
        /\ AllLeaves[i].numBytes > 0
        /\ AllLeaves[j].numBytes = 0
        /\ AllLeaves[k].numBytes > 0

IsContinuation(b) == b \div 64 = 2

\* A byte string made of whole UTF-8 characters.
RECURSIVE WholeChars(_)
WholeChars(bs) ==
    \/ bs = <<>>
    \/ LET w == utf8CharWidth(Head(bs))
       IN  /\ w >= 1
           /\ w <= Len(bs)
           /\ \A k \in 2..w : IsContinuation(bs[k])
           /\ WholeChars(SubSeq(bs, w + 1, Len(bs)))

\* The key a subtree should have: the characters and newlines of its leaves.
TextKey(bs) == [numChars |-> CountStart(bs), numNewlines |-> CountNL(bs)]

SubtreeText(n, gs) ==
    Flatten([k \in 1..Len(LeavesUnder(n, gs)) |-> LeafText(LeavesUnder(n, gs)[k])])

RECURSIVE KeysMatch(_, _)
KeysMatch(n, gs) ==
    IF n.child.kind = "leaf"
    THEN /\ n.numKeys = gs[n.child.g].numNodes
         /\ \A i \in 1..n.numKeys :
                n.keys[i] = TextKey(LeafText(gs[n.child.g].nodes[i]))
    ELSE /\ n.numKeys = n.child.numNodes
         /\ \A i \in 1..n.numKeys :
                /\ n.keys[i] = TextKey(SubtreeText(n.child.nodes[i], gs))
                /\ KeysMatch(n.child.nodes[i], gs)

\* Every inner node of the tree has as many keys as its child group has
\* nodes, and every group holds between 1 and maxNodesPerGroup nodes.
RECURSIVE ShapeOK(_, _)
ShapeOK(n, gs) ==
    IF n.child.kind = "leaf"
    THEN /\ n.numKeys = gs[n.child.g].numNodes
         /\ n.numKeys \in 1..maxNodesPerGroup
    ELSE /\ n.child.kind = "inner"
         /\ n.numKeys = n.child.numNodes
         /\ n.numKeys \in 1..maxNodesPerGroup
         /\ \A i \in 1..n.numKeys : ShapeOK(n.child.nodes[i], gs)

--------------------------------------------------------------------------
(* Claims *)

\* The reader hands over all of its bytes before it reports the end.
WellBehaved == rdMode \in {"plain", "eof"}

\* C1: a tree bulk-built from a valid UTF-8 string S and read from
\* CursorAtPosition(0), with whatever buffer sizes, yields the bytes of S in
\* order, and exactly S once Read has returned io.EOF.
C1_RoundTrip ==
    (/\ ~tree.isNil
     /\ WellBehaved
     /\ ~edited
     /\ curFrom = <<"pos", 0>>)
        => /\ ~panicked
           /\ IsPrefix(out, src)
           /\ curState = "eof" => out = src

\* S fills several leaf groups and has been read to io.EOF.
C1_Witness ==
    /\ ~tree.isNil
    /\ WellBehaved
    /\ ~edited
    /\ curFrom = <<"pos", 0>>
    /\ curState = "eof"
    /\ Len(groups) >= 3
    /\ out = src

\* C2: after any deletions, the bytes read from CursorAtPosition(p), p below
\* the character count, are the current content from its p-th character on.
C2_CursorAtPosition ==
    (/\ curFrom[1] = "pos"
     /\ curFrom[2] < Len(content))
        => /\ ~panicked
           /\ IsPrefix(out, Suffix(content, curFrom[2]))
           /\ curState = "eof" => out = Suffix(content, curFrom[2])

\* Read to io.EOF from an offset inside a tree where a leaf in the middle
\* has become empty.
C2_Witness ==
    /\ curFrom[1] = "pos"
    /\ curFrom[2] > 0
    /\ curFrom[2] < Len(content)
    /\ edited
    /\ EmptyLeafInTheMiddle
    /\ curState = "eof"
    /\ Len(out) > 4

\* C3: after any deletions, CursorAtLine(0) reads from offset 0 and
\* CursorAtLine(L), 1 <= L <= number of newlines, reads from the character
\* right after the L-th newline.
C3_CursorAtLine ==
    (/\ curFrom[1] = "line"
     /\ curFrom[2] <= NumNewlines(content))
        => /\ ~panicked
           /\ IsPrefix(out, FromLine(content, curFrom[2]))
           /\ curState = "eof" => out = FromLine(content, curFrom[2])

\* The L-th newline is the last byte of its leaf, the leaf after it is
\* empty, and the line has been read to io.EOF.
C3_Witness ==
    /\ curFrom[1] = "line"
    /\ curFrom[2] >= 1
    /\ curFrom[2] <= NumNewlines(content)
    /\ edited
    /\ curState = "eof"
    /\ out # <<>>
    /\ LET g == groups[curStart.group]
       IN  /\ curStart.textByteOffset = g.nodes[curStart.nodeIdx + 1].numBytes
           /\ curStart.nodeIdx + 1 < g.numNodes
           /\ g.nodes[curStart.nodeIdx + 2].numBytes = 0

\* C4: DeleteAtPosition(p), p below the character count, removes the p-th
\* character with all of its bytes and nothing else: the tree's text is the
\* flat sequence with that one character removed.
C4_DeleteRemovesOneChar ==
    (lastOp = "DeleteAtPosition" /\ lastDel # <<>>)
        => /\ ~panicked
           /\ TreeText(tree.root, groups) = Flatten(content)

\* A four-byte character has been removed from between other characters.
C4_Witness ==
    /\ lastOp = "DeleteAtPosition"
    /\ Len(lastDel) = 4
    /\ Len(content) >= 2
    /\ TreeText(tree.root, groups) = Flatten(content)

\* C5: DeleteAtPosition(p) with p at or past the character count changes
\* nothing: the root, every key, every leaf and the error stay as they were
\* and nothing panics.
C5_DeletePastEndIsNoOp ==
    [][(lastOp' = "DeleteAtPosition" /\ lastDel' = <<>>)
          => /\ tree' = tree
             /\ groups' = groups
             /\ content' = content
             /\ ~panicked']_vars

\* A deletion past the end of a document whose last leaf is empty.
C5_Witness ==
    /\ lastOp = "DeleteAtPosition"
    /\ lastDel = <<>>
    /\ content # <<>>
    /\ Len(AllLeaves) >= 2
    /\ AllLeaves[Len(AllLeaves)].numBytes = 0

\* C6: a cursor made past the end, by CursorAtPosition(p) with p at or past
\* the character count or CursorAtLine(L) with L above the number of
\* newlines, returns zero bytes and io.EOF from its first Read.
C6_OutOfRangeReadsNothing ==
    (\/ curFrom[1] = "pos" /\ curFrom[2] >= Len(content)
     \/ curFrom[1] = "line" /\ curFrom[2] > NumNewlines(content))
        => /\ ~panicked
           /\ out = <<>>
           /\ lastOp = "Read" => curState = "eof"

\* The first Read of a cursor past the last line of an edited document.
C6_Witness ==
    /\ curFrom[1] = "line"
    /\ curFrom[2] > NumNewlines(content)
    /\ NumNewlines(content) >= 1
    /\ edited
    /\ lastOp = "Read"
    /\ curState = "eof"
    /\ out = <<>>

\* C7: every key of every inner node is the number of characters and of
\* newlines its child's subtree holds, so the root's keys add up to the
\* counts of the content.
C7_KeysMatchContent ==
    ~tree.isNil
        => /\ KeysMatch(tree.root, groups)
           /\ innerKey(tree.root) = [numChars    |-> Len(content),
                                     numNewlines |-> NumNewlines(content)]

\* A newline has been deleted from a tree with two layers of inner groups.
C7_Witness ==
    /\ lastOp = "DeleteAtPosition"
    /\ lastDel = <<NL>>
    /\ Len(groups) > maxNodesPerGroup
    /\ KeysMatch(tree.root, groups)

\* C8: the bytes of every leaf are whole UTF-8 characters.
C8_LeavesHoldWholeChars ==
    \A i \in 1..Len(AllLeaves) : WholeChars(LeafText(AllLeaves[i]))

\* Several leaves hold multi-byte characters after a deletion.
C8_Witness ==
    /\ edited
    /\ \E i, j \in 1..Len(AllLeaves) :
           /\ i < j
           /\ AllLeaves[i].numBytes >= 2
           /\ utf8CharWidth(AllLeaves[i].textBytes[1]) >= 2
           /\ AllLeaves[j].numBytes >= 2
           /\ utf8CharWidth(AllLeaves[j].textBytes[1]) >= 2

\* C9: every leaf holds at most maxBytesPerLeaf bytes, every group between 1
\* and maxNodesPerGroup nodes, every inner node as many keys as its child
\* group has nodes, and no write of the loader lands outside an array.
C9_Capacities ==
    /\ ~panicked
    /\ \A g \in 1..Len(groups) :
           /\ groups[g].numNodes \in 1..maxNodesPerGroup
           /\ \A k \in 1..groups[g].numNodes :
                  groups[g].nodes[k].numBytes <= maxBytesPerLeaf
    /\ ~tree.isNil => ShapeOK(tree.root, groups)

\* A bulk-built tree with full leaves, full leaf groups and a full inner
\* node group.
C9_Witness ==
    /\ ~tree.isNil
    /\ lastOp = "NewTreeFromString"
    /\ Len(groups) > maxNodesPerGroup
    /\ groups[1].numNodes = maxNodesPerGroup
    /\ groups[1].nodes[1].numBytes = maxBytesPerLeaf - 1

\* C10: a constructor returns a tree exactly when it returns a nil error,
\* and returns an error whenever a Read failed or the validator rejected a
\* chunk or the end of the stream.
C10_AllOrNothing ==
    lastOp # "none"
        => /\ tree.isNil <=> err # "nil"
           /\ rdFailed => (tree.isNil /\ err # "nil")

\* A stream longer than one chunk whose every chunk is accepted and whose
\* end, in the middle of a character, is rejected.
C10_Witness ==
    /\ rdFailed
    /\ rdMode = "plain"
    /\ Len(src) > bufLen
    /\ ValidateBytes(NewValidator, src) > 0
    /\ tree.isNil
    /\ err = ErrInvalid

\* C37: what NewTreeFromReader returns depends on the bytes the reader
\* delivers before io.EOF and not on the chunks they come in: for a reader
\* that ends with io.EOF -- handing out one to bufLen bytes per Read, its
\* last bytes with io.EOF or before it, with or without a Read of no bytes
\* and a nil error on the way -- the tree holds every byte of a valid
\* stream, and an invalid stream is rejected.
C37_ContentIndependentOfChunking ==
    (lastOp = "NewTreeFromReader" /\ rdMode \in {"plain", "eof", "zero"})
        => IF ValidateEnd(ValidateBytes(NewValidator, src))
           THEN err = "nil" /\ Flatten(content) = src
           ELSE err = ErrInvalid /\ tree.isNil

--------------------------------------------------------------------------
(* The line breaker as a state machine *)

\* lb.ProcessRune(r)
LineBreakerProcessRune(r) ==
    LET res == ProcessRune(lb, r)
    IN  /\ lb' = res.lb
        /\ lbDecision' = res.decision
        /\ lbRune' = r
        /\ lbPrevRune' = lbRune
        /\ lbRunBefore' = lbRun
        /\ lbRun' = RunsAfter(lbRun, LB1(r))
        /\ lbWinBefore' = lbWin
        /\ lbWin' = WindowsAfter(lbWin, LB1(r), LB1(lbRune))
        /\ UNCHANGED textVars
        /\ UNCHANGED <<docVars, wrapVars, editorVars>>

NextBreaker == \E r \in Runes : LineBreakerProcessRune(r)

SpecBreaker == Init /\ [][NextBreaker]_vars

\* The runes of a text, processed one after the other, beside a second
\* breaker that is given the same runes without the attached marks: the
\* combining marks and joiners that follow a rune of another class than BK,
\* CR, LF, NL, SP, ZW.
MaxRIs == 4

Attached(prev, r) ==
    /\ LB1(r) \in {"CM", "ZWJ"}
    /\ prev # NoRune
    /\ LB1(prev) \notin {"BK", "CR", "LF", "NL", "SP", "ZW"}

\* lb.ProcessRune(r), and base.ProcessRune(r) unless r is an attached mark.
ProcessRuneOfText(r) ==
    LET res == ProcessRune(lb, r)
        base == ProcessRune(lbBase, r)
        mark == Attached(lbRune, r)
    IN  /\ LB1(r) = "RI" => riRun < MaxRIs
        /\ lb' = res.lb
        /\ lbDecision' = res.decision
        /\ lbRune' = r
        /\ lbPrevRune' = lbRune
        /\ lbBase' = IF mark THEN lbBase ELSE base.lb
        /\ lbBaseDecision' = IF mark THEN lbBaseDecision ELSE base.decision
        /\ riRun' = IF mark THEN riRun ELSE IF LB1(r) = "RI" THEN riRun + 1 ELSE 0
        /\ zwRunBefore' = zwRun
        /\ zwRun' = (LB1(r) = "ZW" \/ (zwRun /\ LB1(r) = "SP"))
        /\ UNCHANGED <<lbRun, lbRunBefore, lbWin, lbWinBefore>>
        /\ UNCHANGED <<docVars, wrapVars, editorVars>>

NextText == \E r \in Runes : ProcessRuneOfText(r)

SpecText == Init /\ [][NextText]_vars

--------------------------------------------------------------------------
(* The wrapped-line iterator as a state machine *)

RECURSIVE SeqsOver(_, _)
SeqsOver(S, n) ==
    IF n = 0 THEN {<<>>}
    ELSE LET shorter == SeqsOver(S, n - 1)
         IN  shorter \cup {Append(s, x) : s \in {t \in shorter : Len(t) = n - 1}, x \in S}

WrapInputs == SeqsOver(Clusters, MaxClusters)

\* NewWrappedLineIter(reader, NewLineWrapConfig(maxLineWidth, f)) over a
\* reader of the clusters of input.
OpenWrappedLineIter(input, maxLineWidth, f) ==
    /\ wState = "none"
    /\ wInput' = input
    /\ wIter' = NewWrappedLineIter(NewLineWrapConfig(maxLineWidth, f))
    /\ wState' = "open"
    /\ UNCHANGED <<wSegments, wClusters>>
    /\ UNCHANGED <<docVars, breakerVars, editorVars>>

\* iter.NextSegment(segment)
NextSegment ==
    LET res == WrappedNextSegment(wIter, wInput)
    IN  /\ wState \in {"open", "eof"}
        /\ wIter' = res.iter
        /\ IF res.err = "nil"
           THEN /\ wSegments' = Append(wSegments, res.segment)
                /\ wClusters' = Append(wClusters, res.clusters)
                /\ wState' = "open"
           ELSE /\ wState' = "eof"
                /\ UNCHANGED <<wSegments, wClusters>>
        /\ UNCHANGED wInput
        /\ UNCHANGED <<docVars, breakerVars, editorVars>>

NextWrap ==
    \/ /\ wState = "none"
       /\ \E input \in WrapInputs, maxLineWidth \in 1..MaxLineWidth, f \in WidthFuncs :
              OpenWrappedLineIter(input, maxLineWidth, f)
    \/ NextSegment

SpecWrap == Init /\ [][NextWrap]_vars

--------------------------------------------------------------------------
(* The word motions and word objects as a state machine: a text is opened *)
(* and one of the functions is called on it at one of its positions.     *)

\* The texts of the tests.
TestTexts ==
    {tc.inputString : tc \in TestNextWordStartCases}
        \cup {tc.inputString : tc \in TestNextWordEndCases}
        \cup {tc.inputString : tc \in TestPrevWordStartCases}
        \cup {tc.inputString : tc \in TestWordObjectCases}
        \cup {tc.inputString : tc \in TestInnerWordObjectCases}

LocTexts == SeqsOver(LocAlphabet, MaxText) \cup TestTexts

\* The positions of the characters of a text; 0 in the empty text.
CharPositions(text) == IF text = <<>> THEN {0} ELSE 0..(Len(text) - 1)

\* The positions a cursor rests on: a character that is no line break, or
\* the line break of an empty line.
CursorPositions(text) ==
    {p \in CharPositions(text) :
        text = <<>> \/ ~isNewline(text[p + 1]) \/ onEmptyLine(text, p)}

\* The code points handed to isPunct: the ASCII range, and NEL, NBSP,
\* U+00E9, U+20AC and U+4E00.
ClassifiedRunes == 0..127 \cup {133, 160, 233, 8364, 19968}

OpenText(text) ==
    /\ locOp = "none"
    /\ locText' = text
    /\ locOp' = "open"
    /\ UNCHANGED <<locPos, locResult, locObject, locIsPunct, locClass>>
    /\ UNCHANGED <<docVars, segmentVars, inputVars, lineVars>>

\* A motion called at pos that returned result.
Motion(op, pos, result) ==
    /\ locOp = "open"
    /\ locOp' = op
    /\ locPos' = pos
    /\ locResult' = result
    /\ UNCHANGED <<locText, locObject, locIsPunct, locClass>>
    /\ UNCHANGED <<docVars, segmentVars, inputVars, lineVars>>

\* A text object called at pos that returned the pair object.
Object(op, pos, object) ==
    /\ locOp = "open"
    /\ locOp' = op
    /\ locPos' = pos
    /\ locObject' = object
    /\ UNCHANGED <<locText, locResult, locIsPunct, locClass>>
    /\ UNCHANGED <<docVars, segmentVars, inputVars, lineVars>>

LocateNextWordStart(pos) ==
    Motion("NextWordStart", pos, NextWordStart(locText, pos))

LocateNextWordEnd(pos) ==
    Motion("NextWordEnd", pos, NextWordEnd(locText, pos))

LocatePrevWordStart(pos) ==
    Motion("PrevWordStart", pos, PrevWordStart(locText, pos))

LocateWordObject(pos) ==
    Object("WordObject", pos, WordObject(locText, pos))

LocateInnerWordObject(pos) ==
    Object("InnerWordObject", pos, InnerWordObject(locText, pos))

\* isPunct and the class of the one-rune cluster r.
Classify(r) ==
    /\ locOp = "none"
    /\ locOp' = "isPunct"
    /\ locPos' = r
    /\ locIsPunct' = isPunct(r)
    /\ locClass' = charClass(r)
    /\ UNCHANGED <<locText, locResult, locObject>>
    /\ UNCHANGED <<docVars, segmentVars, inputVars, lineVars>>

NextLocate ==
    \/ /\ locOp = "none"
       /\ \E text \in LocTexts : OpenText(text)
    \/ /\ locOp = "none"
       /\ \E r \in ClassifiedRunes : Classify(r)
    \/ /\ locOp = "open"
       /\ \E pos \in CharPositions(locText) : LocateNextWordStart(pos)
    \/ /\ locOp = "open"
       /\ \E pos \in CharPositions(locText) : LocateNextWordEnd(pos)
    \/ /\ locOp = "open"
       /\ \E pos \in CharPositions(locText) : LocatePrevWordStart(pos)
    \/ /\ locOp = "open"
       /\ \E pos \in CursorPositions(locText) : LocateWordObject(pos)
    \/ /\ locOp = "open"
       /\ \E pos \in CursorPositions(locText) : LocateInnerWordObject(pos)

SpecLocate == Init /\ [][NextLocate]_vars

--------------------------------------------------------------------------
(* The searching actions of package input as a state machine: an editor   *)
(* is opened on a text with the cursor somewhere, then actions run.       *)

InputTexts == SeqsOver(InputAlphabet, MaxInputText)

OpenEditor(text, cursorPos) ==
    /\ inOp = "none"
    /\ inState' = EditorState(text, cursorPos)
    /\ inBefore' = EditorState(text, cursorPos)
    /\ inMatch' = NoMatch
    /\ inOp' = "open"
    /\ UNCHANGED <<docVars, segmentVars, locateVars, lineVars>>

\* The action op ran: it searched with result m and left the editor in the
\* state after.
Ran(op, m, after) ==
    /\ inOp # "none"
    /\ inOp' = op
    /\ inBefore' = inState
    /\ inMatch' = m
    /\ inState' = after
    /\ UNCHANGED <<docVars, segmentVars, locateVars, lineVars>>

RunCursorToNextMatchingChar(char, count, includeChar) ==
    Ran("CursorToNextMatchingChar",
        NextMatchingCharInLine(inState.text, char, count, includeChar, inState.cursorPos),
        CursorToNextMatchingChar(inState, char, count, includeChar))

RunCursorToPrevMatchingChar(char, count, includeChar) ==
    Ran("CursorToPrevMatchingChar",
        PrevMatchingCharInLine(inState.text, char, count, includeChar, inState.cursorPos),
        CursorToPrevMatchingChar(inState, char, count, includeChar))

RunCursorMatchingCodeBlockDelimiter ==
    Ran("CursorMatchingCodeBlockDelimiter",
        MatchingCodeBlockDelimiter(inState.text, inState.cursorPos),
        CursorMatchingCodeBlockDelimiter(inState))

RunCursorPrevUnmatchedOpenBrace ==
    Ran("CursorPrevUnmatchedOpenBrace",
        PrevUnmatchedOpenDelimiter(BracePair, inState.text, inState.cursorPos),
        CursorPrevUnmatchedOpenBrace(inState))

RunCursorNextUnmatchedCloseBrace ==
    Ran("CursorNextUnmatchedCloseBrace",
        NextUnmatchedCloseDelimiter(BracePair, inState.text, inState.cursorPos),
        CursorNextUnmatchedCloseBrace(inState))

RunCursorPrevUnmatchedOpenParen ==
    Ran("CursorPrevUnmatchedOpenParen",
        PrevUnmatchedOpenDelimiter(ParenPair, inState.text, inState.cursorPos),
        CursorPrevUnmatchedOpenParen(inState))

RunCursorNextUnmatchedCloseParen ==
    Ran("CursorNextUnmatchedCloseParen",
        NextUnmatchedCloseDelimiter(ParenPair, inState.text, inState.cursorPos),
        CursorNextUnmatchedCloseParen(inState))

RunDeleteToNextMatchingChar(char, count, includeChar) ==
    Ran("DeleteToNextMatchingChar",
        NextMatchingCharInLine(inState.text, char, count, includeChar, inState.cursorPos),
        DeleteToNextMatchingChar(inState, char, count, includeChar))

RunDeleteToPrevMatchingChar(char, count, includeChar) ==
    Ran("DeleteToPrevMatchingChar",
        PrevMatchingCharInLine(inState.text, char, count, includeChar, inState.cursorPos),
        DeleteToPrevMatchingChar(inState, char, count, includeChar))

NextInput ==
    \/ /\ inOp = "none"
       /\ \E text \in InputTexts : \E cursorPos \in CursorPositions(text) :
              OpenEditor(text, cursorPos)
    \/ /\ inOp # "none"
       /\ \E char \in SearchChars, count \in 1..MaxCount, includeChar \in BOOLEAN :
              RunCursorToNextMatchingChar(char, count, includeChar)
    \/ /\ inOp # "none"
       /\ \E char \in SearchChars, count \in 1..MaxCount, includeChar \in BOOLEAN :
              RunCursorToPrevMatchingChar(char, count, includeChar)
    \/ RunCursorMatchingCodeBlockDelimiter
    \/ RunCursorPrevUnmatchedOpenBrace
    \/ RunCursorNextUnmatchedCloseBrace
    \/ RunCursorPrevUnmatchedOpenParen
    \/ RunCursorNextUnmatchedCloseParen
    \/ /\ inOp # "none"
       /\ \E char \in SearchChars, count \in 1..MaxCount, includeChar \in BOOLEAN :
              RunDeleteToNextMatchingChar(char, count, includeChar)
    \/ /\ inOp # "none"
       /\ \E char \in SearchChars, count \in 1..MaxCount, includeChar \in BOOLEAN :
              RunDeleteToPrevMatchingChar(char, count, includeChar)

SpecInput == Init /\ [][NextInput]_vars

--------------------------------------------------------------------------
(* Scrolling and the actions on counted lines as a state machine: an      *)
(* editor is opened on a text, then an action made with a count runs.     *)

LineTexts == SeqsOver(LineAlphabet, MaxLineText)

\* The action op, made with count, ran and made the call c.
RanWithCount(op, count, c) ==
    /\ inOp = "open"
    /\ inOp' = op
    /\ inBefore' = inState
    /\ inState' = c.after
    /\ inCount' = count
    /\ inCall' = c
    /\ UNCHANGED inMatch
    /\ UNCHANGED <<docVars, segmentVars, locateVars>>

RunScrollUp(ScrollLines, half) ==
    RanWithCount("ScrollUp", ScrollLines, ScrollUp(inState, ScrollLines, half))

RunScrollDown(ScrollLines, half) ==
    RanWithCount("ScrollDown", ScrollLines, ScrollDown(inState, ScrollLines, half))

RunCursorStartOfLineNum(count) ==
    RanWithCount("CursorStartOfLineNum", count, CursorStartOfLineNum(inState, count))

RunDeleteLines(count) ==
    RanWithCount("DeleteLines", count, DeleteLines(inState, count))

RunIndentLine(count) ==
    RanWithCount("IndentLine", count, IndentLine(inState, count))

RunOutdentLine(count) ==
    RanWithCount("OutdentLine", count, OutdentLine(inState, count))

NextLines ==
    \/ /\ inOp = "none"
       /\ \E text \in LineTexts : \E cursorPos \in CursorPositions(text) :
              OpenEditor(text, cursorPos)
    \/ \E ScrollLines \in 0..MaxScrollLines, half \in BOOLEAN :
           RunScrollUp(ScrollLines, half)
    \/ \E ScrollLines \in 0..MaxScrollLines, half \in BOOLEAN :
           RunScrollDown(ScrollLines, half)
    \/ \E count \in 0..MaxLineCount : RunCursorStartOfLineNum(count)
    \/ \E count \in 0..MaxLineCount : RunDeleteLines(count)
    \/ \E count \in 0..MaxLineCount : RunIndentLine(count)
    \/ \E count \in 0..MaxLineCount : RunOutdentLine(count)

SpecLines == Init /\ [][NextLines]_vars

--------------------------------------------------------------------------
(* The tree edited while a cursor is alive.  Nothing in the tree or in the *)
(* cursor prevents it: the cursor keeps its group, node index and offset.  *)

\* The documents of this interleaving: up to MaxStale characters of "a",
\* U+00E9 and "\n".
MaxStale == 3

StaleDocs == SeqsUpTo({<<97>>, <<195, 169>>, <<NL>>}, MaxStale)

\* Tree.DeleteAtPosition called between the creation of the cursor and one
\* of its Reads.
DeleteUnderCursor(charPos) ==
    LET r == innerDeleteAtPosition(tree.root, groups, charPos)
    IN  /\ ~tree.isNil
        /\ ~panicked
        /\ curState # "none"
        /\ tree' = Tree(r.node)
        /\ groups' = r.groups
        /\ panicked' = r.panic
        /\ content' = IF charPos < Len(content)
                      THEN RemoveAt(content, charPos + 1) ELSE content
        /\ lastDel' = IF charPos < Len(content) THEN content[charPos + 1] ELSE <<>>
        /\ edited' = (edited \/ charPos < Len(content))
        /\ stale' = TRUE
        /\ lastOp' = "DeleteAtPosition"
        /\ UNCHANGED <<err, src, rdMode, rdFailed>>
        /\ UNCHANGED cursorVars
        /\ UNCHANGED <<segmentVars, editorVars>>

NextStale ==
    \/ /\ lastOp = "none"
       /\ \E doc \in StaleDocs : NewTreeFromString(doc)
    \/ /\ ~tree.isNil
       /\ curState = "none"
       /\ \E charPos \in Positions : DeleteAtPosition(charPos)
    \/ /\ curState = "none"
       /\ \E charPos \in Positions : OpenCursorAtPosition(charPos)
    \/ /\ curState = "open"
       /\ \E n \in 1..MaxBuf : Read(n)
    \/ /\ ~tree.isNil
       /\ curState # "none"
       /\ \E charPos \in Positions : DeleteUnderCursor(charPos)

SpecStale == Init /\ [][NextStale]_vars

--------------------------------------------------------------------------
(* The tree built and edited, with no cursor *)

NextEdit ==
    \/ NewTree
    \/ /\ lastOp = "none"
       /\ \E doc \in Docs : NewTreeFromString(doc)
    \/ /\ ~tree.isNil
       /\ curState = "none"
       /\ \E charPos \in Positions : DeleteAtPosition(charPos)

SpecEdit == Init /\ [][NextEdit]_vars

--------------------------------------------------------------------------
(* Wrapped lines: what the claims are stated against *)

IsNewlineCluster(e) == HasNewline(wInput[e.idx])

NonNewlines(cs) == {i \in 1..Len(cs) : ~IsNewlineCluster(cs[i])}

\* The width of a segment: each cluster that is not a newline measured at
\* the offset the clusters before it in this segment add up to.
RECURSIVE WidthFrom(_, _, _)
WidthFrom(cs, i, offset) ==
    IF i > Len(cs) THEN offset
    ELSE IF IsNewlineCluster(cs[i]) THEN WidthFrom(cs, i + 1, offset)
    ELSE WidthFrom(cs, i + 1,
             offset + widthFunc(wIter.wrapConfig.widthFunc, wInput[cs[i].idx], offset))

SegmentWidth(cs) == WidthFrom(cs, 1, 0)

\* The widths the iterator measured for the clusters cs[1..n], added up.
RECURSIVE MeasuredWidth(_, _)
MeasuredWidth(cs, n) ==
    IF n = 0 THEN 0 ELSE MeasuredWidth(cs, n - 1) + cs[n].width

TooLarge(e) == ~IsNewlineCluster(e) /\ e.width > wIter.wrapConfig.maxLineWidth

\* The decision a LineBreaker that has processed the runes before gives for
\* rune n of runes.
RECURSIVE BreakerAfter(_, _)
BreakerAfter(runes, n) ==
    IF n = 0 THEN LineBreaker
    ELSE ProcessRune(BreakerAfter(runes, n - 1), runes[n]).lb

RunesBefore(idx) == Len(Flatten(SubSeq(wInput, 1, idx - 1)))

DecisionBefore(idx) ==
    LET runes == Flatten(wInput)
        n == RunesBefore(idx)
    IN  ProcessRune(BreakerAfter(runes, n), runes[n + 1]).decision

\* C11: after io.EOF the segments, one after the other, are the runes of the
\* input: no cluster lost, duplicated or reordered.
C11_WrapFidelity ==
    wState = "eof" => Flatten(wSegments) = Flatten(wInput)

\* C12: no segment is wider than maxLineWidth, unless it holds a single
\* cluster that is not a newline.
C12_SegmentsFit ==
    \A k \in 1..Len(wClusters) :
        \/ SegmentWidth(wClusters[k]) <= wIter.wrapConfig.maxLineWidth
        \/ Cardinality(NonNewlines(wClusters[k])) = 1

\* C13: a newline cluster ends its segment: a segment holds at most one, as
\* its last cluster; the cluster after it starts a segment, and the width
\* counter is 0 when the segment has been returned.
C13_NewlineEndsSegment ==
    /\ \A k \in 1..Len(wClusters) : \A i \in 1..Len(wClusters[k]) :
           IsNewlineCluster(wClusters[k][i]) =>
               /\ i = Len(wClusters[k])
               /\ \A m \in 1..Len(wClusters) : \A p \in 1..Len(wClusters[m]) :
                      wClusters[m][p].idx = wClusters[k][i].idx + 1 => p = 1
    /\ (/\ wState = "open"
        /\ wClusters # <<>>
        /\ IsNewlineCluster(wClusters[Len(wClusters)][Len(wClusters[Len(wClusters)])]))
           => wIter.currentWidth = 0

SoftWrapped(k) ==
    /\ k < Len(wClusters)
    /\ ~IsNewlineCluster(wClusters[k][Len(wClusters[k])])

\* C15 as stated: a soft-wrapped line ends only where the Line Breaker
\* permits a break, apart from a single cluster too wide for any line.
C15_BreaksOnlyWherePermitted ==
    \A k \in 1..Len(wClusters) :
        (/\ SoftWrapped(k)
         /\ ~TooLarge(wClusters[k][1])
         /\ ~TooLarge(wClusters[k + 1][1]))
            => DecisionBefore(wClusters[k + 1][1].idx) # NoLineBreak

\* C15, amended: the iterator combines the clusters with the width function
\* only.  A soft-wrapped line ends exactly where the next cluster does not
\* fit (the widths measured for the line, plus the width measured for that
\* cluster, exceed maxLineWidth), and every cluster after the first of a
\* segment did fit; what the Line Breaker decides there plays no part.
C15_BreaksWhereWidthOverflows ==
    \A k \in 1..Len(wClusters) :
        LET cs == wClusters[k]
        IN  /\ SoftWrapped(k) =>
                   MeasuredWidth(cs, Len(cs)) + wClusters[k + 1][1].width
                       > wIter.wrapConfig.maxLineWidth
            /\ \A i \in 2..Len(cs) :
                   ~IsNewlineCluster(cs[i]) =>
                       MeasuredWidth(cs, i) <= wIter.wrapConfig.maxLineWidth

\* Two letters that fill a line, soft-wrapped before a third letter, where
\* the Line Breaker says NoLineBreak.
C15_Witness ==
    /\ Len(wClusters) >= 2
    /\ SoftWrapped(1)
    /\ Len(wClusters[1]) = 2
    /\ ~TooLarge(wClusters[1][1])
    /\ ~TooLarge(wClusters[2][1])
    /\ DecisionBefore(wClusters[2][1].idx) = NoLineBreak

\* A step of the iterator returns io.EOF and no segment, or one more
\* segment; after io.EOF only the former.
SegmentOrEOF ==
    wState \in {"open", "eof"} =>
        IF wState' = "eof"
        THEN wSegments' = wSegments
        ELSE /\ wState = "open"
             /\ wState' = "open"
             /\ Len(wSegments') = Len(wSegments) + 1

\* C36: the iteration makes progress and terminates.  Every segment
\* NextSegment returns holds a rune and there are never more segments than
\* the text has clusters; every call returns io.EOF or one more segment, so
\* io.EOF comes with the call after the last segment at the latest, after
\* no more calls than the text has clusters, and one; and a call after
\* io.EOF returns io.EOF again and no segment.
C36_ProgressAndTermination ==
    /\ [](/\ \A k \in 1..Len(wSegments) : Len(wSegments[k]) > 0
          /\ Len(wSegments) <= Len(wInput))
    /\ [][SegmentOrEOF]_vars

\* io.EOF after a text with a cluster wider than the line and a cluster of
\* width 0, returned as one segment per cluster.
C36_Witness ==
    /\ wState = "eof"
    /\ wIter.wrapConfig = NewLineWrapConfig(1, "CellWidth")
    /\ \E i \in 1..Len(wInput) : wInput[i] = <<RuneAt("U+4E00")>>
    /\ \E i \in 1..Len(wInput) : wInput[i] = <<RuneAt("U+200B")>>
    /\ Len(wInput) = MaxClusters
    /\ Len(wSegments) = Len(wInput)

--------------------------------------------------------------------------
(* Line breaking: the claims *)

Processed == lbRune # NoRune

\* The class of the last rune and of the rune before it, after LB1.
LastClass == LB1(lbRune)

PrevClass == IF lbPrevRune = NoRune THEN lbPropNone ELSE LB1(lbPrevRune)

C17_NoBreakAfterZWJ ==
    (Processed /\ PrevClass = "ZWJ") => lbDecision # AllowLineBreakBefore

\* The no-break windows of LB14-LB17: inside the window of an opener, which
\* runes get NoLineBreak.
WindowDecisions(win) ==
    /\ (win.OP /\ LastClass \notin {"SP", "BK", "LF", "NL"}) => lbDecision = NoLineBreak
    /\ (win.QU /\ LastClass = "OP") => lbDecision = NoLineBreak
    /\ (win.CL /\ LastClass = "NS") => lbDecision = NoLineBreak
    /\ (win.B2 /\ LastClass = "B2") => lbDecision = NoLineBreak

\* The breaker's window flags are up exactly in these runs.
WindowFlags(win) ==
    /\ lb.inLeftBraceSpaceSeq = win.OP
    /\ lb.inQuotationSpaceSeq = win.QU
    /\ lb.inClosePunctSpaceSeq = win.CL
    /\ lb.inDashSpaceSeq = win.B2

\* C18 as stated: a window is a rune of the opening class and the spaces
\* after it; it forbids the breaks of LB14-LB17 and is closed by the first
\* rune that is neither a space nor of the opening class.
C18_WindowsOfOpenerAndSpaces ==
    Processed => (WindowDecisions(lbRunBefore) /\ WindowFlags(lbRun))

\* C18, amended: the windows survive any number of spaces and forbid the
\* breaks of LB14-LB17; a window is closed by the first rune that is neither
\* a space, nor of the opening class, nor a combining mark or joiner that
\* directly follows the opener or such a mark (LB9 gives it the opener's
\* class, so the window stays open through it).
C18_WindowsThroughAttachedMarks ==
    Processed => (WindowDecisions(lbWinBefore) /\ WindowFlags(lbWin))

\* A letter after an opening bracket, a combining mark on the bracket and a
\* space: the window is still open, and closed by the letter.
C18_Witness ==
    /\ lbWinBefore.OP
    /\ ~lbRunBefore.OP
    /\ PrevClass = "SP"
    /\ LastClass = "AL"
    /\ lbDecision = NoLineBreak
    /\ ~lb.inLeftBraceSpaceSeq

WithClass(r, c) == [r EXCEPT !.lb = c]

\* C19: LB1.  From every breaker state a rune of class AI, SG, XX or of no
\* listed class is processed as one of class AL, a rune of class SA as CM
\* when its general category is Mn or Mc and as AL otherwise, a rune of
\* class CJ as NS.
C19_ClassResolution ==
    \A r \in Runes :
        LET c == lbPropForRune(r)
        IN  /\ c \in {"AI", "SG", "XX", lbPropNone}
                => ProcessRune(lb, r) = ProcessRune(lb, WithClass(r, "AL"))
            /\ c = "SA"
                => ProcessRune(lb, r) =
                       ProcessRune(lb, WithClass(r, IF r.gc \in {"Mn", "Mc"}
                                                    THEN "CM" ELSE "AL"))
            /\ c = "CJ"
                => ProcessRune(lb, r) = ProcessRune(lb, WithClass(r, "NS"))

\* A surrogate after a letter: no break, as between two letters.
C19_Witness ==
    /\ lbPropForRune(lbRune) = "SG"
    /\ PrevClass = "AL"
    /\ lbDecision = NoLineBreak
    /\ lb.lastProp = "AL"

\* C20 as stated: two runes of the same line-break class, processed from
\* the same state, give the same decision and the same successor state.
C20_FunctionOfClass ==
    \A r1 \in Runes, r2 \in Runes :
        lbPropForRune(r1) = lbPropForRune(r2)
            => ProcessRune(lb, r1) = ProcessRune(lb, r2)

EastAsianWide(r) == eaPropForRune(r) \in {"F", "W", "H"}

\* C20, amended: ProcessRune is a function of the breaker state, the
\* line-break class of the rune, whether its East Asian width is F, W or H
\* (LB30) and, for a rune of class SA, whether its general category is Mn
\* or Mc (LB1): two runes that agree on these give the same decision and
\* the same successor state.
C20_FunctionOfClassWidthAndMark ==
    \A r1 \in Runes, r2 \in Runes :
        (/\ lbPropForRune(r1) = lbPropForRune(r2)
         /\ EastAsianWide(r1) = EastAsianWide(r2)
         /\ lbPropForRune(r1) = "SA" => ((r1.gc \in {"Mn", "Mc"}) = (r2.gc \in {"Mn", "Mc"})))
            => ProcessRune(lb, r1) = ProcessRune(lb, r2)

\* A fullwidth opening bracket after a letter: a break is allowed, where
\* LB30 forbids it before a narrow one.
C20_Witness ==
    /\ lbPropForRune(lbRune) = "OP"
    /\ EastAsianWide(lbRune)
    /\ PrevClass = "AL"
    /\ lbDecision = AllowLineBreakBefore

\* C31: CR LF is one hard break.  A CR gets NoLineBreak unless it follows
\* another CR; the LF right after a CR gets RequireLineBreakAfter; every
\* other rune right after a CR gets RequireLineBreakBefore.
C31_CRLFIsOneBreak ==
    Processed =>
        /\ (LastClass = "CR" /\ PrevClass # "CR") => lbDecision = NoLineBreak
        /\ (PrevClass = "CR" /\ LastClass = "LF") => lbDecision = RequireLineBreakAfter
        /\ (PrevClass = "CR" /\ LastClass # "LF") => lbDecision = RequireLineBreakBefore

\* The LF of a CR LF: the CR has been processed, the LF asks for the one
\* break after it.
C31_Witness ==
    /\ PrevClass = "CR"
    /\ LastClass = "LF"
    /\ lb.lastLastProp = "CR"
    /\ lbDecision = RequireLineBreakAfter

\* C32: a combining mark or joiner that follows a base rune gets
\* NoLineBreak, and every other rune gets the decision it gets when the
\* attached marks are not processed at all.
C32_MarksAreTransparent ==
    Processed =>
        IF Attached(lbPrevRune, lbRune)
        THEN lbDecision = NoLineBreak
        ELSE lbDecision = lbBaseDecision

\* C33: in a run of regional indicators the 2nd, 4th, ... get NoLineBreak
\* and the 3rd, 5th, ... get AllowLineBreakBefore; a mark attached to a
\* regional indicator is not counted, and the parity flag says throughout
\* whether the indicators of the run so far are odd in number.
C33_RegionalIndicatorParity ==
    Processed =>
        /\ (LastClass = "RI" /\ riRun >= 2) =>
               lbDecision = IF riRun % 2 = 0 THEN NoLineBreak
                                             ELSE AllowLineBreakBefore
        /\ lb.lastPropsWereRIOdd = (riRun % 2 = 1)

\* The third regional indicator of a run, after a combining mark on the
\* second: a break is allowed before it.
C33_Witness ==
    /\ LastClass = "RI"
    /\ riRun = 3
    /\ PrevClass = "CM"
    /\ lb.lastLastProp = "RI"
    /\ lbDecision = AllowLineBreakBefore
    /\ lb.lastPropsWereRIOdd

\* C34: a rune of class SP, ZW, BK, CR, LF or NL never gets
\* AllowLineBreakBefore: no soft break is offered before a space, a
\* zero-width space or a hard line break.
C34_NoSoftBreakBeforeSpaceOrBreak ==
    (Processed /\ LastClass \in {"SP", "ZW", "BK", "CR", "LF", "NL"})
        => lbDecision # AllowLineBreakBefore

\* A zero-width space right after a zero-width space, where LB8 allows a
\* break before every rune LB4-LB7 let through.
C34_Witness ==
    /\ LastClass = "ZW"
    /\ PrevClass = "ZW"
    /\ lb.lastLastProp = "ZW"
    /\ lbDecision = NoLineBreak

\* C35: after a zero-width space and any number of spaces, the next rune
\* that is not SP, ZW or a hard line break gets AllowLineBreakBefore,
\* whatever its class: also CL, CP, EX, IS, SY, WJ, GL, CM and ZWJ, before
\* which a later rule forbids a break.
C35_BreakAfterZeroWidthSpace ==
    (/\ Processed
     /\ zwRunBefore
     /\ LastClass \notin {"SP", "ZW", "BK", "CR", "LF", "NL"})
        => lbDecision = AllowLineBreakBefore

\* A closing bracket after a zero-width space and a space.
C35_Witness ==
    /\ zwRunBefore
    /\ PrevClass = "SP"
    /\ LastClass = "CL"
    /\ lbDecision = AllowLineBreakBefore

--------------------------------------------------------------------------
(* Word motions and word objects: the tests and the claims                *)

\* The scans return what the package's tests expect on every test case.
LocateTestsPass ==
    /\ \A tc \in TestNextWordStartCases :
           NextWordStart(tc.inputString, tc.pos) = tc.expected
    /\ \A tc \in TestNextWordEndCases :
           NextWordEnd(tc.inputString, tc.pos) = tc.expected
    /\ \A tc \in TestPrevWordStartCases :
           PrevWordStart(tc.inputString, tc.pos) = tc.expected
    /\ \A tc \in TestWordObjectCases :
           WordObject(tc.inputString, tc.pos) = tc.expected
    /\ \A tc \in TestInnerWordObjectCases :
           InnerWordObject(tc.inputString, tc.pos) = tc.expected

\* The ASCII punctuation characters other than the underscore.
PunctRanges == (33..47) \cup (58..64) \cup (91..94) \cup {96} \cup (123..126)

\* The class of a character: whitespace, punctuation, word-character.
ClassOf(r) ==
    IF IsWhitespace(r) THEN "whitespace"
    ELSE IF r \in PunctRanges THEN "punct"
    ELSE "word"

\* The class of the character at position q.
ClassAt(text, q) == ClassOf(text[q + 1])

\* Position q is the line break of an empty line.
EmptyLine(text, q) ==
    /\ q < Len(text)
    /\ text[q + 1] = 10
    /\ q = 0 \/ text[q] = 10

\* Position q holds a non-whitespace character whose predecessor has
\* another class.
AfterClassChange(text, q) ==
    /\ 0 < q
    /\ q < Len(text)
    /\ ClassAt(text, q) # "whitespace"
    /\ ClassAt(text, q - 1) # ClassAt(text, q)

\* Position q holds the last character of a run of word-characters or of
\* punctuation.
EndsRun(text, q) ==
    /\ q < Len(text)
    /\ ClassAt(text, q) # "whitespace"
    /\ q + 1 = Len(text) \/ ClassAt(text, q + 1) # ClassAt(text, q)

Least(S) == CHOOSE q \in S : \A r \in S : q <= r

Greatest(S) == CHOOSE q \in S : \A r \in S : r <= q

\* C21: NextWordStart(text, pos) is the smallest position q > pos that holds
\* a non-whitespace character after a character of another class, or that is
\* an empty line; without such a position it is the end of the document.
\* The underscore is a word-character.
C21_NextWordStart ==
    locOp = "NextWordStart" =>
        LET later == {q \in (locPos + 1)..Len(locText) :
                         AfterClassChange(locText, q) \/ EmptyLine(locText, q)}
        IN  locResult = IF later = {} THEN Len(locText) ELSE Least(later)

\* From the first "a" of "a_a/" the next word start is the "/": the
\* underscore did not start a word.
C21_Witness ==
    /\ locOp = "NextWordStart"
    /\ locText = <<97, 95, 97, 47>>
    /\ locPos = 0
    /\ locResult = 3

\* C22: NextWordEnd(text, pos) is the smallest position q > pos that holds
\* the last character of a run of word-characters or of punctuation; without
\* such a position it is the last character of the document.
C22_NextWordEnd ==
    locOp = "NextWordEnd" =>
        LET later == {q \in (locPos + 1)..Len(locText) : EndsRun(locText, q)}
        IN  locResult = IF later # {} THEN Least(later)
                        ELSE IF locText = <<>> THEN 0
                        ELSE Len(locText) - 1

\* On the word end "a" of "a\n\na": the empty line is skipped and the result
\* is the end of the next word.
C22_Witness ==
    /\ locOp = "NextWordEnd"
    /\ locText = <<97, 10, 10, 97>>
    /\ locPos = 0
    /\ locResult = 3

\* C23: PrevWordStart(text, pos) is the largest position q < pos that holds
\* a non-whitespace character after a character of another class or at the
\* start of the document, or that is an empty line; without such a position
\* it is 0.
C23_PrevWordStart ==
    locOp = "PrevWordStart" =>
        LET earlier == {q \in 0..(locPos - 1) :
                           \/ AfterClassChange(locText, q)
                           \/ q = 0 /\ ClassAt(locText, 0) # "whitespace"
                           \/ EmptyLine(locText, q)}
        IN  locResult = IF earlier = {} THEN 0 ELSE Greatest(earlier)

\* From the "a" of "_/\na" the line break is skipped and the result is
\* the "/", which follows a word-character.
C23_Witness ==
    /\ locOp = "PrevWordStart"
    /\ locText = <<95, 47, 10, 97>>
    /\ locPos = 3
    /\ locResult = 1

\* The characters at from..(to - 1) all have the class cls.
AllOfClass(text, from, to, cls) ==
    \A q \in from..(to - 1) : ClassAt(text, q) = cls

\* No character at from..(to - 1) is a line break.
OnOneLine(text, from, to) ==
    \A q \in from..(to - 1) : text[q + 1] # 10

\* C24: on a word-character or a punctuation character WordObject returns
\* the start of that run and the position after the whitespace that follows
\* the run on its line; on whitespace or an empty line it returns the start
\* of the whitespace run, not before the preceding line break, and the
\* position after the run of word-characters or punctuation that follows,
\* the end of the document if none follows.
C24_WordObject ==
    (locOp = "WordObject" /\ locText # <<>>) =>
        LET n == Len(locText)
            cls == ClassAt(locText, locPos)
            start == locObject[1]
            end == locObject[2]
        IN  IF cls # "whitespace"
            THEN LET runEnds == {e \in (locPos + 1)..n :
                                    /\ AllOfClass(locText, locPos, e, cls)
                                    /\ e = n \/ ClassAt(locText, e) # cls}
                     e == Least(runEnds)
                 IN  /\ start = Least({s \in 0..locPos :
                                          AllOfClass(locText, s, locPos, cls)})
                     /\ end = Greatest({f \in e..n :
                                           /\ AllOfClass(locText, e, f, "whitespace")
                                           /\ OnOneLine(locText, e, f)})
            ELSE LET words == {w \in locPos..(n - 1) :
                                  ClassAt(locText, w) # "whitespace"}
                 IN  /\ start = Least({s \in 0..locPos :
                                          /\ AllOfClass(locText, s, locPos, cls)
                                          /\ OnOneLine(locText, s, locPos)})
                     /\ end = IF words = {} THEN n
                              ELSE LET w == Least(words) IN
                                   Greatest({f \in (w + 1)..n :
                                                AllOfClass(locText, w, f,
                                                           ClassAt(locText, w))})

\* Both cases on " a \n": from the "a" the object takes the space after it
\* and stops before the line break.
C24_Witness ==
    /\ locOp = "WordObject"
    /\ locText = <<32, 97, 32, 10>>
    /\ locPos = 1
    /\ locObject = <<1, 3>>

\* C25: InnerWordObject returns the maximal run of characters of one class
\* that contains pos and no line break, so start <= pos < end; on an empty
\* line it returns <<pos, pos>>.
C25_InnerWordObject ==
    (locOp = "InnerWordObject" /\ locText # <<>>) =>
        LET n == Len(locText)
            cls == ClassAt(locText, locPos)
            start == locObject[1]
            end == locObject[2]
        IN  IF EmptyLine(locText, locPos) THEN locObject = <<locPos, locPos>>
            ELSE /\ start <= locPos
                 /\ locPos < end
                 /\ end <= n
                 /\ AllOfClass(locText, start, end, cls)
                 /\ OnOneLine(locText, start, end)
                 /\ \/ start = 0
                    \/ ClassAt(locText, start - 1) # cls
                    \/ locText[start] = 10
                 /\ \/ end = n
                    \/ ClassAt(locText, end) # cls
                    \/ locText[end + 1] = 10

\* On the second space of "\n  \n" the run is the two spaces between the
\* line breaks.
C25_Witness ==
    /\ locOp = "InnerWordObject"
    /\ locText = <<10, 32, 32, 10>>
    /\ locPos = 2
    /\ locObject = <<1, 3>>

\* C26: isPunct is true exactly for the ASCII punctuation other than the
\* underscore; a character is a word-character exactly when it is neither
\* whitespace nor punctuation, as are the underscore and every non-ASCII
\* character that is not whitespace.
C26_Classification ==
    locOp = "isPunct" =>
        /\ locIsPunct = (locPos \in PunctRanges)
        /\ locClass \in {"whitespace", "punct", "word"}
        /\ (locClass = "whitespace") = IsWhitespace(locPos)
        /\ (locClass = "punct") = (locIsPunct /\ ~IsWhitespace(locPos))
        /\ (locClass = "word") = (~locIsPunct /\ ~IsWhitespace(locPos))
        /\ locPos = 95 => locClass = "word"
        /\ (locPos > 127 /\ ~IsWhitespace(locPos)) => locClass = "word"

\* The underscore has been classified.
C26_Witness ==
    /\ locOp = "isPunct"
    /\ locPos = 95
    /\ ~locIsPunct
    /\ locClass = "word"

\* C27: on the empty document every motion returns 0 and every text object
\* returns <<0, 0>>.
C27_EmptyDocument ==
    locText = <<>> =>
        /\ locOp \in {"NextWordStart", "NextWordEnd", "PrevWordStart"}
               => locResult = 0
        /\ locOp \in {"WordObject", "InnerWordObject"}
               => locObject = <<0, 0>>

\* NextWordEnd has been called on the empty document.
C27_Witness ==
    /\ locText = <<>>
    /\ locOp = "NextWordEnd"
    /\ locResult = 0

--------------------------------------------------------------------------
(* The searching actions of package input                                 *)

CursorMotions ==
    {"CursorToNextMatchingChar", "CursorToPrevMatchingChar",
     "CursorMatchingCodeBlockDelimiter",
     "CursorPrevUnmatchedOpenBrace", "CursorNextUnmatchedCloseBrace",
     "CursorPrevUnmatchedOpenParen", "CursorNextUnmatchedCloseParen"}

MatchingCharDeletions == {"DeleteToNextMatchingChar", "DeleteToPrevMatchingChar"}

\* C28: a motion that searches for a character or a delimiter puts the
\* cursor on the position found and, when nothing is found, leaves it where
\* it was; it never changes the text.  DeleteToNextMatchingChar and
\* DeleteToPrevMatchingChar delete nothing when nothing is found.
C28_NoMatchNoMove ==
    /\ inOp \in CursorMotions =>
           /\ inState.text = inBefore.text
           /\ inState.cursorPos = IF inMatch.found THEN inMatch.pos
                                  ELSE inBefore.cursorPos
    /\ (inOp \in MatchingCharDeletions /\ ~inMatch.found) =>
           inState.text = inBefore.text

\* A search from a cursor that is not at position 0 found nothing (the
\* search itself returned position 0), and the cursor stayed.
C28_Witness ==
    /\ inOp = "CursorToNextMatchingChar"
    /\ ~inMatch.found
    /\ inBefore.cursorPos > 0
    /\ inState = inBefore

--------------------------------------------------------------------------
(* A cursor over a tree that is edited                                    *)

\* The leaf the live cursor is positioned on.
CursorLeaf == groups[cursor.group].nodes[cursor.nodeIdx + 1]

\* The cursor is positioned on a leaf (not past the last group).
OnLeaf == curState # "none" /\ ~tree.isNil /\ cursor.group # 0

\* The sequence a ends the sequence b.
IsSuffix(a, b) ==
    /\ Len(a) <= Len(b)
    /\ a = SubSeq(b, Len(b) - Len(a) + 1, Len(b))

\* C29: DeleteAtPosition leaves a live cursor as it is, whatever it does to
\* the cursor's leaf; and while no DeleteAtPosition has run since the
\* cursor was made, the cursor's byte offset is at most the byte count of
\* its leaf.
C29_OffsetWithinUneditedLeaf ==
    (OnLeaf /\ ~stale) => cursor.textByteOffset <= CursorLeaf.numBytes

\* After create Cursor, DeleteAtPosition, Read, DeleteAtPosition: the bytes
\* read start with a continuation byte, they are no suffix of the document,
\* and the cursor's offset is past the end of its leaf.
C29_Witness ==
    /\ OnLeaf
    /\ stale
    /\ out # <<>>
    /\ utf8StartByteIndicator(out[1]) = 0
    /\ ~IsSuffix(out, Flatten(content))
    /\ cursor.textByteOffset > CursorLeaf.numBytes

--------------------------------------------------------------------------
(* What DeleteAtPosition changes                                          *)

\* The leaves of an arena: <<g, i>> is node i of leaf group g.
Leaves(gs) ==
    {id \in (1..Len(gs)) \X (1..maxNodesPerGroup) : id[2] <= gs[id[1]].numNodes}

\* The inner node after is the inner node before with the key of one child
\* decremented (numChars by 1, numNewlines by 1 for a line break), and that
\* child is the leaf changed or an inner node of which the same holds.
RECURSIVE OneKeyPerLevel(_, _, _, _)
OneKeyPerLevel(before, after, wasNewline, changed) ==
    /\ after.numKeys = before.numKeys
    /\ after.child.kind = before.child.kind
    /\ \E k \in 1..before.numKeys :
           /\ after.keys[k].numChars = before.keys[k].numChars - 1
           /\ after.keys[k].numNewlines =
                  before.keys[k].numNewlines - (IF wasNewline THEN 1 ELSE 0)
           /\ \A j \in (1..maxKeysPerNode) \ {k} : after.keys[j] = before.keys[j]
           /\ IF before.child.kind = "leaf"
              THEN /\ after.child = before.child
                   /\ changed = <<before.child.g, k>>
              ELSE /\ after.child.numNodes = before.child.numNodes
                   /\ \A j \in (1..maxNodesPerGroup) \ {k} :
                          after.child.nodes[j] = before.child.nodes[j]
                   /\ OneKeyPerLevel(before.child.nodes[k], after.child.nodes[k],
                                     wasNewline, changed)

\* A DeleteAtPosition removes a character.
DeletesCharacter ==
    /\ lastOp' = "DeleteAtPosition"
    /\ Len(content') < Len(content)

\* C30: a DeleteAtPosition that removes a character changes the bytes of
\* one leaf and one key in each inner node on the way to it; the leaf
\* groups, their links and node counts, the other leaves, the other keys
\* and the other inner nodes stay as they are, also when the leaf becomes
\* empty.
C30_DeleteChangesOnePath ==
    [][DeletesCharacter =>
          /\ Len(groups') = Len(groups)
          /\ \A g \in 1..Len(groups) :
                 /\ groups'[g].prev = groups[g].prev
                 /\ groups'[g].next = groups[g].next
                 /\ groups'[g].numNodes = groups[g].numNodes
          /\ \E changed \in Leaves(groups) :
                 /\ LeafText(groups'[changed[1]].nodes[changed[2]])
                        # LeafText(groups[changed[1]].nodes[changed[2]])
                 /\ \A g \in 1..Len(groups), i \in 1..maxNodesPerGroup :
                        <<g, i>> # changed =>
                            groups'[g].nodes[i] = groups[g].nodes[i]
                 /\ OneKeyPerLevel(tree.root, tree'.root, lastDel' = <<NL>>, changed)
      ]_vars

\* A deletion under a root with inner nodes below it has left a leaf empty,
\* and the leaf is still there.
C30_Witness ==
    /\ lastOp = "DeleteAtPosition"
    /\ lastDel # <<>>
    /\ ~tree.isNil
    /\ tree.root.child.kind = "inner"
    /\ \E id \in Leaves(groups) : groups[id[1]].nodes[id[2]].numBytes = 0

--------------------------------------------------------------------------
(* Counted lines: the claims                                              *)

\* C38: ScrollUp and ScrollDown move by at least one line: whatever
\* ctx.ScrollLines and half are, the number of lines handed to
\* StartOfLineAbove or StartOfLineBelow and to ScrollViewByNumLines is at
\* least 1.
C38_ScrollsAtLeastOneLine ==
    inOp \in {"ScrollUp", "ScrollDown"}
        => /\ inCall.lines >= 1
           /\ inCall.scrolled >= 1

Max(a, b) == IF a > b THEN a ELSE b

\* C39: the count of a line action does not wrap around: DeleteLines,
\* IndentLine and OutdentLine made with count hand max(count, 1) - 1 lines
\* to StartOfLineBelow, and CursorStartOfLineNum goes to that line; never
\* the largest uint64.
C39_CountNeverWraps ==
    inOp \in {"DeleteLines", "IndentLine", "OutdentLine", "CursorStartOfLineNum"}
        => /\ inCall.lines = Max(inCount, 1) - 1
           /\ inCall.lines # MaxUint64

==========================================================================
